---- MODULE Spec2Model ----
(***************************************************************************)
(* A model of the package merge scripts of merging-pptx-scripts:           *)
(*   copy_elements_method.py  merge_presentations and its helpers          *)
(*   mk3.py                   merge_pptx_files                             *)
(*   mk4.py                   merge_presentations (python-pptx based)      *)
(* One behaviour is one run of one script on one pair of input packages.   *)
(*                                                                         *)
(* A package is a record                                                   *)
(*   readable  the archive opens                                           *)
(*   files     part path -> bytes, for the parts that are plain files      *)
(*   relDocs   owner part path -> relationship document of that part       *)
(*             (the file <dir>/_rels/<basename>.rels)                      *)
(*   hasLst    ppt/presentation.xml has a p:sldIdLst element               *)
(*   lst       the p:sldId elements of ppt/presentation.xml, in order      *)
(*   rels      the Relationship elements of                                *)
(*             ppt/_rels/presentation.xml.rels, in order                   *)
(*   hasCT, defaults, overrides   [Content_Types].xml                      *)
(* A path is a record [dir, stem, ext]: the directory segments from the    *)
(* package root, and the file name split as os.path.splitext splits it.    *)
(***************************************************************************)
EXTENDS Integers, Sequences, FiniteSets, TLC

(***************************************************************************)
(* Bounds of the model.                                                    *)
(***************************************************************************)
MaxBaseUnits == 2
MaxSrcUnits == 2

(***************************************************************************)
(* Paths: os.path.join, os.path.normpath, os.path.dirname.                 *)
(***************************************************************************)
P(dir, stem, ext) == [dir |-> dir, stem |-> stem, ext |-> ext]

RECURSIVE NormAcc(_, _)
NormAcc(acc, rest) ==
  IF rest = <<>> THEN acc
  ELSE LET h == Head(rest)
       IN  IF h \in {".", ""} THEN NormAcc(acc, Tail(rest))
           ELSE IF h = ".." /\ acc # <<>> /\ acc[Len(acc)] # ".."
                THEN NormAcc(SubSeq(acc, 1, Len(acc) - 1), Tail(rest))
                ELSE NormAcc(Append(acc, h), Tail(rest))

\* os.path.normpath on a relative path
normpath(p) == P(NormAcc(<<>>, p.dir), p.stem, p.ext)

\* os.path.join(d, p) for a directory d and a relative path p
join(d, p) == P(d \o p.dir, p.stem, p.ext)

\* The part a relationship target names, read from the directory of the part
\* that owns the relationship document.
Resolve(ownerDir, target) == normpath(join(ownerDir, target))

\* target.startswith('http')
StartsWithHttp(target) ==
  target.dir # <<>> /\ target.dir[1] \in {"http:", "https:"}

(***************************************************************************)
(* XML attribute values and namespaces.                                    *)
(***************************************************************************)
PML == "http://schemas.openxmlformats.org/presentationml/2006/main"
OfficeDocRel == "http://schemas.openxmlformats.org/officeDocument/2006/relationships"
OfficeDocMain == "http://schemas.openxmlformats.org/officeDocument/2006/main"
None == [pfx |-> "None", n |-> 0]

\* namespace.replace('schemas.openxmlformats.org/presentationml',
\*                   'schemas.openxmlformats.org/officeDocument')
ReplacePresentationml(ns) == IF ns = PML THEN OfficeDocMain ELSE ns

get_namespace(rootNs, prefix) ==
  IF rootNs # ""
  THEN IF prefix = "p" THEN rootNs
       ELSE IF prefix = "r" THEN ReplacePresentationml(rootNs)
       ELSE ""
  ELSE ""

\* element.get('{ns}id') on a p:sldId element: the attribute of that
\* namespace, or None
GetNsId(sldId, ns) == IF ns \in DOMAIN sldId.nsid THEN sldId.nsid[ns] ELSE None

\* A relationship id "rId<n>", and an id that is not of that form
RId(n) == [pfx |-> "rId", n |-> n]
OtherId(n) == [pfx |-> "docRel", n |-> n]

Rel(id, type, target, mode) ==
  [Id |-> id, Type |-> type, Target |-> target, Mode |-> mode]

\* The r:id of a unit reference: its id attribute in the relationships
\* namespace.
RIdOf(sldId) == GetNsId(sldId, OfficeDocRel)

\* any(type_id in rel_type for type_id in ['image', 'audio', 'video'])
IsMediaType(t) == t \in {"image", "audio", "video"}
\* 'chart' in rel_type
IsChartType(t) == t \in {"chart", "chartUserShapes"}

Range(s) == {s[k] : k \in DOMAIN s}

MaxOf(S) == CHOOSE y \in S : \A z \in S : z <= y

(***************************************************************************)
(* Input packages.  The parts and documents below are the inputs the runs  *)
(* are checked on; Init draws the pair of packages from them.              *)
(***************************************************************************)
PptFile(folder, stem, ext) == P(<<"ppt", folder>>, stem, ext)
\* A relationship target as written in a slide's relationship document
Up(folder, stem, ext) == P(<<"..", folder>>, stem, ext)
\* A relationship target as written in presentation.xml.rels
Top(folder, stem, ext) == P(<<folder>>, stem, ext)

Bytes(owner, p) == owner \o ":" \o p.stem \o p.ext

Doc(rels) == [ok |-> TRUE, rels |-> rels]
MalformedDoc == [ok |-> FALSE, rels |-> <<>>]

XmlMime == "application/xml"
RelsMime == "application/vnd.openxmlformats-package.relationships+xml"
SlideMime == "application/vnd.openxmlformats-officedocument.presentationml.slide+xml"
ChartMime == "application/vnd.openxmlformats-officedocument.drawingml.chart+xml"
MainMime == "application/vnd.openxmlformats-officedocument.presentationml.presentation.main+xml"

BaseSlide(k) == PptFile("slides", "slide" \o ToString(k), ".xml")

BaseSlideDoc ==
  Doc(<< Rel(RId(1), "slideLayout", Up("slideLayouts", "slideLayout1", ".xml"), "Internal"),
         Rel(RId(2), "image", Up("media", "image1", ".png"), "Internal"),
         Rel(RId(5), "hyperlink", P(<<"http:", "", "example.com">>, "index", ".html"), "External") >>)

BaseCommonFiles ==
  { PptFile("slideLayouts", "slideLayout1", ".xml"),
    PptFile("slideMasters", "slideMaster1", ".xml"),
    PptFile("theme", "theme1", ".xml"),
    PptFile("media", "image1", ".png") }

\* A target package with nb units: unit i has id firstId + i - 1, relationship
\* id rId<i+1> and the slide part slides/slide<i+off>.xml.
BasePkg(nb, firstId, off) ==
  LET slides == {BaseSlide(i + off) : i \in 1..nb}
      fs == slides \cup BaseCommonFiles
  IN  [ readable  |-> TRUE,
        ns        |-> PML,
        files     |-> [p \in fs |-> Bytes("base", p)],
        relDocs   |-> [p \in slides |-> BaseSlideDoc],
        hasLst    |-> TRUE,
        lst       |-> [i \in 1..nb |->
                        [id |-> firstId + i - 1, nsid |-> (OfficeDocRel :> RId(i + 1))]],
        rels      |-> << Rel(RId(1), "slideMaster", Top("slideMasters", "slideMaster1", ".xml"), "Internal") >>
                      \o [i \in 1..nb |->
                           Rel(RId(i + 1), "slide", Top("slides", "slide" \o ToString(i + off), ".xml"), "Internal")]
                      \o << Rel(RId(nb + 2), "theme", Top("theme", "theme1", ".xml"), "Internal") >>,
        hasCT     |-> TRUE,
        defaults  |-> ("xml" :> XmlMime) @@ ("rels" :> RelsMime) @@ ("png" :> "image/png"),
        overrides |-> [p \in slides |-> SlideMime],
        layouts   |-> <<"Title Slide", "Blank">> ]

\* The same, with presentation.xml lacking its p:sldIdLst element
BaseNoLst == [BasePkg(0, 256, 0) EXCEPT !.hasLst = FALSE]

\* The same, with a top-level relationship whose Id is not of the form rId<n>
BaseOtherId ==
  LET b == BasePkg(1, 256, 0)
  IN  [b EXCEPT !.rels = Append(b.rels,
         Rel(OtherId(1), "presProps", P(<<>>, "presProps", ".xml"), "Internal"))]

\* An archive that cannot be opened
Unreadable ==
  [ readable |-> FALSE, ns |-> PML, files |-> <<>>, relDocs |-> <<>>,
    hasLst |-> FALSE, lst |-> <<>>, rels |-> <<>>,
    hasCT |-> FALSE, defaults |-> <<>>, overrides |-> <<>>, layouts |-> <<>> ]

\* A target package without slide layouts
BaseNoLayouts ==
  LET b == BasePkg(1, 256, 0)
      fs == (DOMAIN b.files) \ {PptFile("slideLayouts", "slideLayout1", ".xml")}
  IN  [b EXCEPT !.files = [p \in fs |-> b.files[p]], !.layouts = <<>>]

\* A target package whose [Content_Types].xml declares .png with another
\* content type than the scripts know for it
BaseOddDefault ==
  [BasePkg(1, 256, 0) EXCEPT !.defaults = ("png" :> "image/x-png") @@ @]

\* A target package without [Content_Types].xml
BaseNoCT ==
  [BasePkg(1, 256, 0) EXCEPT !.hasCT = FALSE, !.defaults = <<>>, !.overrides = <<>>]

BasePkgs ==
  {BasePkg(nb, f, off) : nb \in 0..MaxBaseUnits, f \in {1, 256}, off \in {0, 1}}
    \cup {BaseNoLst, BaseOtherId, BaseNoLayouts, BaseOddDefault, Unreadable}

SrcSlide(k) == PptFile("slides", "slide" \o ToString(k), ".xml")
SrcChart == PptFile("charts", "chart1", ".xml")

SrcFiles ==
  { SrcSlide(1), SrcSlide(2),
    PptFile("slideLayouts", "slideLayout1", ".xml"),
    PptFile("slideLayouts", "slideLayout2", ".xml"),
    PptFile("slideMasters", "slideMaster1", ".xml"),
    PptFile("theme", "theme1", ".xml"),
    PptFile("media", "a", ".png"),
    PptFile("media", "image1", ".png"),
    SrcChart,
    PptFile("embeddings", "book1", ".xlsx") }

\* The relationship documents slide1.xml of the source may come with
SlideDocChoices ==
  { Doc(<< Rel(RId(1), "slideLayout", Up("slideLayouts", "slideLayout1", ".xml"), "Internal"),
           Rel(RId(2), "image", Up("media", "a", ".png"), "Internal") >>),
    Doc(<< Rel(RId(1), "slideLayout", Up("slideLayouts", "slideLayout2", ".xml"), "Internal"),
           Rel(RId(2), "image", Up("media", "image1", ".png"), "Internal"),
           Rel(RId(3), "image", Up("media", "a", ".png"), "Internal"),
           Rel(RId(4), "chart", Up("charts", "chart1", ".xml"), "Internal") >>),
    Doc(<< Rel(RId(1), "image", Up("media", "gone", ".jpg"), "Internal") >>),
    Doc(<< Rel(RId(1), "image", P(<<"https:", "", "example.com">>, "logo", ".png"), "External"),
           Rel(RId(2), "video", P(<<"file:", "", "", "clips">>, "intro", ".mp4"), "External"),
           Rel(RId(3), "chart", Up("charts", "chart9", ".xml"), "Internal") >>),
    MalformedDoc }

\* slide2.xml of the source names the same image as slide1.xml may, spelled
\* differently, and a chart with an embedded workbook
SrcSlide2Doc ==
  Doc(<< Rel(RId(1), "slideLayout", Up("slideLayouts", "slideLayout1", ".xml"), "Internal"),
         Rel(RId(2), "image", P(<<"..", "media", ".">>, "a", ".png"), "Internal"),
         Rel(RId(3), "chart", Up("charts", "chart1", ".xml"), "Internal") >>)

SrcChartDoc ==
  Doc(<< Rel(RId(1), "package", Up("embeddings", "book1", ".xlsx"), "Internal") >>)

SrcRels ==
  << Rel(RId(1), "slideMaster", Top("slideMasters", "slideMaster1", ".xml"), "Internal"),
     Rel(RId(2), "slide", Top("slides", "slide1", ".xml"), "Internal"),
     Rel(RId(3), "slide", Top("slides", "slide2", ".xml"), "Internal"),
     Rel(RId(4), "slide", Top("slides", "slide3", ".xml"), "Internal"),
     Rel(RId(5), "theme", Top("theme", "theme1", ".xml"), "Internal"),
     Rel(RId(6), "presProps", P(<<>>, "presProps", ".xml"), "Internal") >>

\* The relationship ids a source unit reference may carry: slide1.xml,
\* slide2.xml, a relationship whose slide part is absent, and an id with no
\* relationship.
SrcUnitRIds == {RId(2), RId(3), RId(4), RId(9)}

\* A source package whose unit list carries the relationship ids rids;
\* slide1.xml has no relationship document when hasDoc1 is false and doc1
\* otherwise.  With alsoMain, every p:sldId carries its relationship id a
\* second time, as an id attribute of the namespace OfficeDocMain.
SrcPkg(rids, hasDoc1, doc1, alsoMain) ==
  [ readable  |-> TRUE,
    ns        |-> PML,
    files     |-> [p \in SrcFiles |-> Bytes("src", p)],
    relDocs   |-> IF hasDoc1
                  THEN (SrcSlide(1) :> doc1) @@ (SrcSlide(2) :> SrcSlide2Doc) @@ (SrcChart :> SrcChartDoc)
                  ELSE (SrcSlide(2) :> SrcSlide2Doc) @@ (SrcChart :> SrcChartDoc),
    hasLst    |-> TRUE,
    lst       |-> [k \in 1..Len(rids) |->
                    [id |-> 255 + k,
                     nsid |-> IF alsoMain
                              THEN (OfficeDocRel :> rids[k]) @@ (OfficeDocMain :> rids[k])
                              ELSE (OfficeDocRel :> rids[k])]],
    rels      |-> SrcRels,
    hasCT     |-> TRUE,
    defaults  |-> ("xml" :> XmlMime) @@ ("rels" :> RelsMime) @@ ("png" :> "image/png")
                   @@ ("xlsx" :> "application/vnd.openxmlformats-officedocument.spreadsheetml.sheet"),
    overrides |-> (SrcSlide(1) :> SlideMime) @@ (SrcSlide(2) :> SlideMime) @@ (SrcChart :> ChartMime),
    layouts   |-> <<"Title Slide", "Two Content">> ]

SrcNoLst == [SrcPkg(<<>>, FALSE, MalformedDoc, FALSE) EXCEPT !.hasLst = FALSE]

SeqsUpTo(S, n) == UNION {[1..k -> S] : k \in 0..n}

SrcPkgs ==
  {SrcPkg(rids, TRUE, d, m) : rids \in SeqsUpTo(SrcUnitRIds, MaxSrcUnits),
                              d \in SlideDocChoices, m \in BOOLEAN}
    \cup {SrcPkg(rids, FALSE, MalformedDoc, m) : rids \in SeqsUpTo(SrcUnitRIds, MaxSrcUnits),
                                                 m \in BOOLEAN}
    \cup {SrcNoLst, Unreadable}

(***************************************************************************)
(* State.                                                                  *)
(*   prog       the script that runs                                       *)
(*   pc         its position                                               *)
(*   base_ppt   the first input archive (the target of the merge)          *)
(*   add_ppt    the second input archive (the source of the merge)         *)
(*   out_file   the file at output_path: NoFile or a package               *)
(*   temp_dir   the staging directory exists                               *)
(*   base_dir   the target as staged on disk                               *)
(*   tree       the parsed documents of the target held in memory:         *)
(*              hasLst, lst (presentation.xml) and rels                    *)
(*              (presentation.xml.rels)                                    *)
(*   loc        the local variables of the merge function                  *)
(*   hist       what the run has done so far: the ids it handed out, the   *)
(*              files it copied, the units it added, what it printed       *)
(*   result     how the run ended: status, returned value, exit code       *)
(*   disk       the files at the paths a run writes that are none of its   *)
(*              three argument paths                                       *)
(*   par        two runs of copy_elements_method.merge_presentations in    *)
(*              flight at once, and the staging directory they use         *)
(*   sm         the StateManager class of state_manager.py and the threads *)
(*              that use it                                                *)
(***************************************************************************)
VARIABLES prog, pc, base_ppt, add_ppt, out_file, temp_dir, base_dir, tree, loc,
          hist, result, disk, par, sm

vars == <<prog, pc, base_ppt, add_ppt, out_file, temp_dir, base_dir, tree, loc,
          hist, result, disk, par, sm>>

NoFile == [readable |-> FALSE, ns |-> "", files |-> <<>>, relDocs |-> <<>>,
           hasLst |-> FALSE, lst |-> <<>>, rels |-> <<>>,
           hasCT |-> FALSE, defaults |-> <<>>, overrides |-> <<>>, layouts |-> <<>>]

NoTree == [hasLst |-> FALSE, lst |-> <<>>, rels |-> <<>>]

NoLoc == [max_slide_id |-> 0, max_rel_id |-> 0, i |-> 0, j |-> 0,
          added_media |-> <<>>, uuids |-> 0, rid_mapping |-> <<>>,
          overrides |-> <<>>, argc |-> 0, default_layout |-> "",
          output_path |-> <<>>, name2 |-> <<>>]

NoHist == [seeded |-> FALSE, seedUnit |-> 0, seedRel |-> 0,
           unitIds |-> <<>>, relIds |-> <<>>, copies |-> <<>>,
           added |-> <<>>, skipped |-> <<>>, printed |-> <<>>,
           failedAt |-> "", produced |-> FALSE, out0 |-> FALSE, add0 |-> NoFile]

Running == [status |-> "running", value |-> "", warnings |-> <<>>, exit |-> 0]

\* No file at _persist_file
NoPickle == [kind |-> "absent", dict |-> <<>>]

\* No thread uses the StateManager class
NoSM == [scen |-> "", initial |-> 0, instance |-> 0, made |-> 0, maker |-> 0, initialized |-> 0, states |-> <<>>,
         lock |-> [owner |-> 0, count |-> 0], auto_persist |-> FALSE,
         persistence_thread |-> FALSE, worker |-> "none", file |-> NoPickle,
         th |-> <<>>]

\* No second run is in flight
NoPar == [inp |-> <<>>, pc |-> <<>>, temp |-> FALSE, base |-> NoFile, add |-> NoFile,
          out |-> <<>>, failedAt |-> <<>>]

(***************************************************************************)
(* copy_elements_method.py                                                 *)
(***************************************************************************)
\* uuid.uuid4().hex[:8]: a value not drawn before
Uuid(n) == "u" \o ToString(n)

\* shutil.copy2(from, to) under "if os.path.exists(from)": from is a path of
\* the source package, to a path of the staged target
CopyIfExists(st, add, from, to) ==
  IF from \in DOMAIN add.files
  THEN [st EXCEPT !.files = (to :> add.files[from]) @@ st.files,
                  !.copies = Append(@, [from |-> from, to |-> to,
                                        existed |-> to \in DOMAIN st.files])]
  ELSE st

\* One relationship of a chart's relationship document
ChartRelStep(st, add, rel) ==
  IF rel.Type = "package" /\ rel.Target.ext = ".xlsx"
  THEN LET t == rel.Target
           excel_path == IF t.dir # <<>> /\ Head(t.dir) = ".."
                         THEN [t EXCEPT !.dir = Tail(@)] ELSE t
           source_excel_path == normpath(excel_path)
           excel_id == P(<<"embeddings">>, "Microsoft_Excel_Sheet" \o Uuid(st.uuids + 1), ".xlsx")
           st1 == CopyIfExists([st EXCEPT !.uuids = @ + 1], add, source_excel_path, excel_id)
       IN  [st1 EXCEPT !.cdoc = Append(@, [rel EXCEPT !.Target = join(<<"..">>, excel_id)])]
  ELSE [st EXCEPT !.cdoc = Append(@, rel)]

RECURSIVE ChartRelLoop(_, _, _, _)
ChartRelLoop(st, add, rels, k) ==
  IF k > Len(rels) THEN st
  ELSE ChartRelLoop(ChartRelStep(st, add, rels[k]), add, rels, k + 1)

process_chart_relationships(st, add, chart_rel_path, target_chart_rel_path) ==
  IF chart_rel_path \notin DOMAIN add.relDocs THEN st
  ELSE IF ~add.relDocs[chart_rel_path].ok THEN [st EXCEPT !.raised = TRUE]
  ELSE LET st1 == ChartRelLoop([st EXCEPT !.cdoc = <<>>], add,
                               add.relDocs[chart_rel_path].rels, 1)
       IN  [st1 EXCEPT !.relDocs = (target_chart_rel_path :> Doc(st1.cdoc)) @@ @]

\* media_path: the key of added_media
MediaKeyRaw(slide_path, target) == join(slide_path.dir, target)
MediaKey(slide_path, target) == normpath(join(slide_path.dir, target))

\* new_filename for a media file not in added_media yet
NewMediaName(added_media, ext) ==
  P(<<"media">>, "image" \o ToString(Cardinality(DOMAIN added_media) + 1), ext)

\* One relationship of a slide's relationship document
SlideRelStep(st, add, slide_path, rel) ==
  IF IsMediaType(rel.Type)
  THEN IF ~StartsWithHttp(rel.Target)
       THEN LET media_path == MediaKey(slide_path, rel.Target)
                source_media_path == Resolve(<<"ppt">>, media_path)
                new_filename == NewMediaName(st.added_media, media_path.ext)
                st1 == IF media_path \notin DOMAIN st.added_media
                       THEN CopyIfExists(
                              [st EXCEPT !.added_media = (media_path :> new_filename) @@ @],
                              add, source_media_path, join(<<"ppt">>, new_filename))
                       ELSE st
            IN  [st1 EXCEPT !.doc = Append(@,
                   [rel EXCEPT !.Target = join(<<"..">>, st1.added_media[media_path])])]
       ELSE [st EXCEPT !.doc = Append(@, rel)]
  ELSE IF IsChartType(rel.Type)
  THEN LET chart_path == normpath(join(slide_path.dir, rel.Target))
           source_chart_path == Resolve(<<"ppt">>, chart_path)
           chart_id == "chart" \o Uuid(st.uuids + 1)
           new_chart_path == P(<<"charts">>, chart_id, ".xml")
           st0 == [st EXCEPT !.uuids = @ + 1]
           st1 == IF source_chart_path \in DOMAIN add.files
                  THEN process_chart_relationships(
                         CopyIfExists(st0, add, source_chart_path, join(<<"ppt">>, new_chart_path)),
                         add,
                         PptFile("charts", chart_path.stem, chart_path.ext),
                         PptFile("charts", chart_id, ".xml"))
                  ELSE st0
       IN  [st1 EXCEPT !.doc = Append(@, [rel EXCEPT !.Target = join(<<"..">>, new_chart_path)])]
  ELSE [st EXCEPT !.doc = Append(@, rel)]

RECURSIVE SlideRelLoop(_, _, _, _, _)
SlideRelLoop(st, add, slide_path, rels, k) ==
  IF k > Len(rels) \/ st.raised THEN st
  ELSE SlideRelLoop(SlideRelStep(st, add, slide_path, rels[k]), add, slide_path, rels, k + 1)

\* st: [files, relDocs, added_media, uuids, copies, raised, doc, cdoc]
process_slide_relationships(st, add, slide_path, new_slide_path) ==
  LET slide_rel_path == join(<<"ppt">>, slide_path)
      target_rel_path == join(<<"ppt">>, new_slide_path)
  IN  IF slide_rel_path \notin DOMAIN add.relDocs THEN st
      ELSE IF ~add.relDocs[slide_rel_path].ok THEN [st EXCEPT !.raised = TRUE]
      ELSE LET st1 == SlideRelLoop([st EXCEPT !.doc = <<>>], add, slide_path,
                                   add.relDocs[slide_rel_path].rels, 1)
           IN  IF st1.raised THEN st1
               ELSE [st1 EXCEPT !.relDocs = (target_rel_path :> Doc(st1.doc)) @@ @,
                                !.wrote = TRUE]

\* The first relationship of rels whose Id is rid, as a set (empty: no
\* relationship has that Id)
FirstWithId(rels, rid) ==
  LET ks == {k \in DOMAIN rels : rels[k].Id = rid}
  IN  IF ks = {} THEN {} ELSE {rels[CHOOSE k \in ks : \A j \in ks : k <= j]}

\* int(rel.get('Id').replace('rId', '')) raises ValueError
IdNotInt(id) == id.pfx # "rId"

DefaultMaxSlideId == 255

\* max(slide_ids) if slide_ids else 255, and max(rel_ids) if rel_ids else 0
SeedSlideId(lst) ==
  IF lst = <<>> THEN DefaultMaxSlideId ELSE MaxOf({lst[k].id : k \in DOMAIN lst})
SeedRelId(rels) ==
  IF rels = <<>> THEN 0 ELSE MaxOf({rels[k].Id.n : k \in DOMAIN rels})

\* max_slide_id += 1 and max_rel_id += 1
NextId(c) == c + 1

\* new_slide_path = f"slides/slide{max_slide_id}.xml"
NewSlidePath(new_slide_id) == P(<<"slides">>, "slide" \o ToString(new_slide_id), ".xml")

Raise(where) ==
  /\ pc' = "except"
  /\ hist' = [hist EXCEPT !.failedAt = where]

\* lines 23-31: create the staging directories and extract both archives
CEM_Extract ==
  /\ prog = "copy_elements_method" /\ pc = "start"
  /\ temp_dir' = TRUE
  /\ IF base_ppt.readable /\ add_ppt.readable
     THEN /\ base_dir' = base_ppt
          /\ pc' = "parse"
          /\ hist' = hist
     ELSE /\ base_dir' = IF base_ppt.readable THEN base_ppt ELSE base_dir
          /\ Raise("extract")
  /\ UNCHANGED <<sm, par, disk, prog, base_ppt, add_ppt, out_file, tree, loc, result>>

\* lines 33-75: parse the target's documents, seed the counters, parse the
\* source's main document
CEM_Parse ==
  /\ prog = "copy_elements_method" /\ pc = "parse"
  /\ IF ~base_dir.hasLst
     THEN \* root.find('.//p:presentation') is None: ET.SubElement raises
          /\ Raise("sldIdLst") /\ UNCHANGED <<tree, loc, result>>
     ELSE IF \E k \in DOMAIN base_dir.rels : IdNotInt(base_dir.rels[k].Id)
     THEN /\ Raise("rel_ids") /\ UNCHANGED <<tree, loc, result>>
     ELSE /\ tree' = [hasLst |-> TRUE, lst |-> base_dir.lst, rels |-> base_dir.rels]
          /\ loc' = [loc EXCEPT !.max_slide_id = SeedSlideId(base_dir.lst),
                                !.max_rel_id = SeedRelId(base_dir.rels),
                                !.i = 1]
          /\ IF ~add_ppt.hasLst
             THEN /\ pc' = "finally"
                  /\ hist' = [hist EXCEPT
                       !.seeded = TRUE,
                       !.seedUnit = SeedSlideId(base_dir.lst),
                       !.seedRel = SeedRelId(base_dir.rels),
                       !.printed = Append(@, "No slides found in the presentation to be added.")]
             ELSE /\ pc' = "loop"
                  /\ hist' = [hist EXCEPT
                       !.seeded = TRUE,
                       !.seedUnit = SeedSlideId(base_dir.lst),
                       !.seedRel = SeedRelId(base_dir.rels)]
          /\ UNCHANGED result
  /\ UNCHANGED <<sm, par, disk, prog, base_ppt, add_ppt, out_file, temp_dir, base_dir>>

\* lines 77-133: one source unit reference
CEM_Slide ==
  /\ prog = "copy_elements_method" /\ pc = "loop" /\ loc.i <= Len(add_ppt.lst)
  /\ LET slide_id_elem == add_ppt.lst[loc.i]
         rid == GetNsId(slide_id_elem, get_namespace(add_ppt.ns, "r"))
         found == FirstWithId(add_ppt.rels, rid)
     IN  IF found = {} \/ (\E slide_rel \in found :
                             join(<<"ppt">>, slide_rel.Target) \notin DOMAIN add_ppt.files)
         THEN \* continue
              /\ loc' = [loc EXCEPT !.i = @ + 1]
              /\ hist' = [hist EXCEPT !.skipped = Append(@, loc.i)]
              /\ UNCHANGED <<pc, base_dir, tree>>
         ELSE LET slide_rel == CHOOSE r \in found : TRUE
                  slide_path == slide_rel.Target
                  full_add_slide_path == join(<<"ppt">>, slide_path)
                  new_slide_id == NextId(loc.max_slide_id)
                  new_rel_n == NextId(loc.max_rel_id)
                  new_rel_id == RId(new_rel_n)
                  new_slide_path == NewSlidePath(new_slide_id)
                  full_new_slide_path == join(<<"ppt">>, new_slide_path)
                  st0 == CopyIfExists(
                           [files |-> base_dir.files, relDocs |-> base_dir.relDocs,
                            added_media |-> loc.added_media, uuids |-> loc.uuids,
                            copies |-> hist.copies, raised |-> FALSE,
                            doc |-> <<>>, cdoc |-> <<>>, wrote |-> FALSE],
                           add_ppt, full_add_slide_path, full_new_slide_path)
                  st1 == process_slide_relationships(st0, add_ppt, slide_path, new_slide_path)
              IN  /\ tree' = [tree EXCEPT
                       !.lst = Append(@, [id |-> new_slide_id,
                                          nsid |-> (get_namespace(base_dir.ns, "r") :> new_rel_id)]),
                       !.rels = Append(@, Rel(new_rel_id, "slide", new_slide_path, "Internal"))]
                  /\ base_dir' = [base_dir EXCEPT !.files = st1.files, !.relDocs = st1.relDocs]
                  /\ loc' = [loc EXCEPT !.max_slide_id = new_slide_id,
                                        !.max_rel_id = new_rel_n,
                                        !.added_media = st1.added_media,
                                        !.uuids = st1.uuids,
                                        !.i = @ + 1]
                  /\ hist' = [hist EXCEPT
                       !.unitIds = Append(@, new_slide_id),
                       !.relIds = Append(@, new_rel_id),
                       !.copies = st1.copies,
                       !.added = Append(@, [k |-> loc.i, from |-> full_add_slide_path,
                                            to |-> full_new_slide_path,
                                            existed |-> full_new_slide_path \in DOMAIN base_dir.files,
                                            id |-> new_slide_id, rid |-> new_rel_id,
                                            wrote |-> st1.wrote]),
                       !.failedAt = IF st1.raised THEN "slide_rels" ELSE @]
                  /\ pc' = IF st1.raised THEN "except" ELSE pc
  /\ UNCHANGED <<sm, par, disk, prog, base_ppt, add_ppt, out_file, temp_dir, result>>

\* lines 135-137: write presentation.xml and presentation.xml.rels
CEM_Save ==
  /\ prog = "copy_elements_method" /\ pc = "loop" /\ loc.i > Len(add_ppt.lst)
  /\ base_dir' = [base_dir EXCEPT !.hasLst = tree.hasLst, !.lst = tree.lst,
                                  !.rels = tree.rels]
  /\ pc' = "content_types"
  /\ UNCHANGED <<sm, par, disk, prog, base_ppt, add_ppt, out_file, temp_dir, tree, loc, hist, result>>

\* extensions of update_content_types, without the leading dot
Extensions ==
  ("jpeg" :> "image/jpeg") @@ ("jpg" :> "image/jpeg") @@ ("png" :> "image/png")
    @@ ("gif" :> "image/gif") @@ ("wmf" :> "image/x-wmf") @@ ("mp3" :> "audio/mp3")
    @@ ("mp4" :> "video/mp4")
    @@ ("xlsx" :> "application/vnd.openxmlformats-officedocument.spreadsheetml.sheet")

\* os.listdir(base_dir/ppt/<folder>), the entries ending in .xml
XmlFilesOf(files, folder) ==
  {p \in DOMAIN files : p.dir = <<"ppt", folder>> /\ p.ext = ".xml"}

\* os.path.exists(base_dir/ppt/<folder>)
DirExists(pkg, folder) ==
  \E p \in (DOMAIN pkg.files) \cup (DOMAIN pkg.relDocs) :
     Len(p.dir) >= 2 /\ p.dir[1] = "ppt" /\ p.dir[2] = folder

\* update_content_types on a staged package with a [Content_Types].xml and a
\* ppt/slides directory
update_content_types(pkg) ==
  LET slides == XmlFilesOf(pkg.files, "slides")
      charts == IF DirExists(pkg, "charts") THEN XmlFilesOf(pkg.files, "charts") ELSE {}
  IN  [pkg EXCEPT
        !.defaults = @ @@ Extensions,
        !.overrides = @ @@ [p \in slides |-> SlideMime] @@ [p \in charts |-> ChartMime]]

\* create_pptx: the archive of everything under source_dir
create_pptx(source_dir) == source_dir

\* line 140 with the archive written first: create_pptx before
\* update_content_types
CEM_UpdateContentTypesPackFirst ==
  /\ prog = "copy_elements_method" /\ pc = "content_types"
  /\ out_file' = create_pptx(base_dir)
  /\ IF ~base_dir.hasCT
     THEN /\ pc' = "package" /\ UNCHANGED <<base_dir, hist>>
     ELSE IF ~DirExists(base_dir, "slides")
     THEN /\ Raise("content_types") /\ UNCHANGED base_dir
     ELSE /\ base_dir' = update_content_types(base_dir)
          /\ pc' = "package" /\ UNCHANGED hist
  /\ UNCHANGED <<sm, par, disk, prog, base_ppt, add_ppt, temp_dir, tree, loc, result>>

\* line 140
CEM_UpdateContentTypes ==
  /\ prog = "copy_elements_method" /\ pc = "content_types"
  /\ IF ~base_dir.hasCT
     THEN /\ pc' = "package" /\ UNCHANGED <<base_dir, hist>>
     ELSE IF ~DirExists(base_dir, "slides")
     THEN \* os.listdir raises FileNotFoundError
          /\ Raise("content_types") /\ UNCHANGED base_dir
     ELSE /\ base_dir' = update_content_types(base_dir)
          /\ pc' = "package" /\ UNCHANGED hist
  /\ UNCHANGED <<sm, par, disk, prog, base_ppt, add_ppt, out_file, temp_dir, tree, loc, result>>

\* lines 142-145
CEM_CreatePptx ==
  /\ prog = "copy_elements_method" /\ pc = "package"
  /\ out_file' = create_pptx(base_dir)
  /\ hist' = [hist EXCEPT !.produced = TRUE,
                          !.printed = Append(@, "Successfully merged presentations")]
  /\ pc' = "finally"
  /\ UNCHANGED <<sm, par, disk, prog, base_ppt, add_ppt, temp_dir, base_dir, tree, loc, result>>

\* lines 147-148
CEM_Except ==
  /\ prog = "copy_elements_method" /\ pc = "except"
  /\ hist' = [hist EXCEPT !.printed = Append(@, "Error merging presentations")]
  /\ pc' = "finally"
  /\ UNCHANGED <<sm, par, disk, prog, base_ppt, add_ppt, out_file, temp_dir, base_dir, tree, loc, result>>

\* lines 149-152, and the end of the script (lines 397-398): the function
\* returns None and the interpreter exits with code 0
CEM_Finally ==
  /\ prog = "copy_elements_method" /\ pc = "finally"
  /\ temp_dir' = FALSE
  /\ result' = [status |-> "returned", value |-> "None", warnings |-> <<>>, exit |-> 0]
  /\ pc' = "done"
  /\ UNCHANGED <<sm, par, disk, prog, base_ppt, add_ppt, out_file, base_dir, tree, loc, hist>>

CEM_Next ==
  \/ CEM_Extract
  \/ CEM_Parse
  \/ CEM_Slide
  \/ CEM_Save
  \/ CEM_UpdateContentTypes
  \/ CEM_CreatePptx
  \/ CEM_Except
  \/ CEM_Finally

(***************************************************************************)
(* mk3.py                                                                  *)
(***************************************************************************)
\* An exception nothing catches: the interpreter prints the traceback and
\* exits with code 1; nothing after the raising statement runs
Uncaught(where) ==
  /\ pc' = "done"
  /\ hist' = [hist EXCEPT !.failedAt = where]
  /\ result' = [status |-> "raised", value |-> where, warnings |-> <<>>, exit |-> 1]

\* lines 18-33: make the staging directory and extract both archives
Mk3_Extract ==
  /\ prog = "mk3" /\ pc = "start"
  /\ temp_dir' = TRUE
  /\ IF base_ppt.readable /\ add_ppt.readable
     THEN /\ base_dir' = base_ppt /\ pc' = "parse" /\ UNCHANGED <<hist, result>>
     ELSE /\ base_dir' = IF base_ppt.readable THEN base_ppt ELSE base_dir
          /\ Uncaught("extract")
  /\ UNCHANGED <<sm, par, disk, prog, base_ppt, add_ppt, out_file, tree, loc>>

\* lines 71-75 and 87-96: the counters' first values
Mk3SeedSlideId(lst) == MaxOf({0} \cup {lst[k].id : k \in DOMAIN lst})
Mk3SeedRelId(rels) ==
  MaxOf({0} \cup {rels[k].Id.n : k \in {j \in DOMAIN rels : rels[j].Id.pfx = "rId"}})

\* lines 35-99: parse the main documents and the top-level relationship
\* documents, find both unit lists, seed the counters
Mk3_Parse ==
  /\ prog = "mk3" /\ pc = "parse"
  /\ IF ~base_dir.hasLst \/ ~(add_ppt.hasLst /\ add_ppt.ns = base_dir.ns)
     THEN /\ Uncaught("ValueError") /\ UNCHANGED <<tree, loc>>
     ELSE /\ tree' = [hasLst |-> TRUE, lst |-> base_dir.lst, rels |-> base_dir.rels]
          /\ loc' = [loc EXCEPT !.max_slide_id = Mk3SeedSlideId(base_dir.lst),
                                !.max_rel_id = Mk3SeedRelId(base_dir.rels),
                                !.i = 1]
          /\ hist' = [hist EXCEPT !.seeded = TRUE,
                                  !.seedUnit = Mk3SeedSlideId(base_dir.lst),
                                  !.seedRel = Mk3SeedRelId(base_dir.rels)]
          /\ pc' = "copy"
          /\ UNCHANGED result
  /\ UNCHANGED <<sm, par, disk, prog, base_ppt, add_ppt, out_file, temp_dir, base_dir>>

Mk3Folders ==
  {"slides", "slideMasters", "slideLayouts", "charts", "media", "embeddings",
   "theme", "diagrams"}

\* An entry directly in ppt/<folder>, or in ppt/<folder>/_rels as the
\* relationship document of such an entry
InFolder(p) == Len(p.dir) = 2 /\ p.dir[1] = "ppt" /\ p.dir[2] \in Mk3Folders
\* An entry below a subdirectory of ppt/<folder>
InSubdir(p) == Len(p.dir) > 2 /\ p.dir[1] = "ppt" /\ p.dir[2] \in Mk3Folders

\* The files and relationship documents step 1 copies: those whose
\* destination does not exist (a subdirectory is copied whole when the
\* destination has no entry of its name)
Mk3FilesToCopy(base, add) ==
  {p \in DOMAIN add.files :
     \/ InFolder(p) /\ p \notin DOMAIN base.files
     \/ InSubdir(p) /\ ~\E q \in (DOMAIN base.files) \cup (DOMAIN base.relDocs) :
                          Len(q.dir) > 2 /\ SubSeq(q.dir, 1, 3) = SubSeq(p.dir, 1, 3)}
Mk3DocsToCopy(base, add) ==
  {p \in DOMAIN add.relDocs :
     \/ InFolder(p) /\ p \notin DOMAIN base.relDocs
     \/ InSubdir(p) /\ ~\E q \in (DOMAIN base.files) \cup (DOMAIN base.relDocs) :
                          Len(q.dir) > 2 /\ SubSeq(q.dir, 1, 3) = SubSeq(p.dir, 1, 3)}

\* lines 101-136: step 1
Mk3_CopyFolders ==
  /\ prog = "mk3" /\ pc = "copy"
  /\ LET fs == Mk3FilesToCopy(base_dir, add_ppt)
         ds == Mk3DocsToCopy(base_dir, add_ppt)
     IN  base_dir' = [base_dir EXCEPT
           !.files = @ @@ [p \in fs |-> add_ppt.files[p]],
           !.relDocs = @ @@ [p \in ds |-> add_ppt.relDocs[p]]]
  /\ pc' = "content_types"
  /\ UNCHANGED <<sm, par, disk, prog, base_ppt, add_ppt, out_file, temp_dir, tree, loc, hist, result>>

\* lines 138-156: step 2.  The Override elements of the source whose
\* PartName the target does not declare are appended to the parsed
\* [Content_Types].xml of the target, which is written at line 230
Mk3_ContentTypes ==
  /\ prog = "mk3" /\ pc = "content_types"
  /\ IF ~base_dir.hasCT \/ ~add_ppt.hasCT
     THEN /\ Uncaught("content_types") /\ UNCHANGED <<loc>>
     ELSE /\ loc' = [loc EXCEPT !.overrides = base_dir.overrides @@ add_ppt.overrides]
          /\ pc' = "loop"
          /\ UNCHANGED <<hist, result>>
  /\ UNCHANGED <<sm, par, disk, prog, base_ppt, add_ppt, out_file, temp_dir, base_dir, tree>>

\* line 181: the ids consumed for a skipped unit stay consumed
KeepConsumedRollBack(c) == c - 1
KeepConsumed(c) == c

\* lines 159-192: step 3, one source unit reference
Mk3_Slide ==
  /\ prog = "mk3" /\ pc = "loop" /\ loc.i <= Len(add_ppt.lst)
  /\ LET slide_id == add_ppt.lst[loc.i]
         old_rid == GetNsId(slide_id, OfficeDocRel)
         new_id == NextId(loc.max_slide_id)
         new_rel_n == NextId(loc.max_rel_id)
         new_rid == RId(new_rel_n)
         found == FirstWithId(add_ppt.rels, old_rid)
     IN  IF found = {}
         THEN /\ loc' = [loc EXCEPT !.max_slide_id = KeepConsumed(new_id),
                                    !.max_rel_id = KeepConsumed(new_rel_n),
                                    !.rid_mapping = (old_rid :> new_rid) @@ @,
                                    !.i = @ + 1]
              /\ hist' = [hist EXCEPT
                   !.unitIds = Append(@, new_id),
                   !.relIds = Append(@, new_rid),
                   !.skipped = Append(@, loc.i),
                   !.printed = Append(@, "Could not find relationship for slide")]
              /\ UNCHANGED tree
         ELSE LET slide_target == (CHOOSE r \in found : TRUE).Target
              IN  /\ tree' = [tree EXCEPT
                       !.lst = Append(@, [id |-> new_id, nsid |-> (OfficeDocRel :> new_rid)]),
                       !.rels = Append(@, Rel(new_rid, "slide", slide_target, "Internal"))]
                  /\ loc' = [loc EXCEPT !.max_slide_id = new_id,
                                        !.max_rel_id = new_rel_n,
                                        !.rid_mapping = (old_rid :> new_rid) @@ @,
                                        !.i = @ + 1]
                  /\ hist' = [hist EXCEPT
                       !.unitIds = Append(@, new_id),
                       !.relIds = Append(@, new_rid),
                       !.added = Append(@, [k |-> loc.i, from |-> join(<<"ppt">>, slide_target),
                                            to |-> join(<<"ppt">>, slide_target),
                                            existed |-> FALSE,
                                            id |-> new_id, rid |-> new_rid,
                                            wrote |-> FALSE])]
  /\ UNCHANGED <<sm, par, disk, prog, pc, base_ppt, add_ppt, out_file, temp_dir, base_dir, result>>

\* line 194: the slide loop is over
Mk3_SlidesDone ==
  /\ prog = "mk3" /\ pc = "loop" /\ loc.i > Len(add_ppt.lst)
  /\ pc' = "other_rels"
  /\ loc' = [loc EXCEPT !.j = 1]
  /\ UNCHANGED <<sm, par, disk, prog, base_ppt, add_ppt, out_file, temp_dir, base_dir, tree, hist, result>>

\* lines 196-225: step 4, one relationship of the source's top-level
\* relationship document
Mk3_OtherRel ==
  /\ prog = "mk3" /\ pc = "other_rels" /\ loc.j <= Len(add_ppt.rels)
  /\ LET rel == add_ppt.rels[loc.j]
         target_exists == \E k \in DOMAIN tree.rels :
                             tree.rels[k].Target = rel.Target /\ tree.rels[k].Type = rel.Type
         new_rel_n == NextId(loc.max_rel_id)
         new_rid == RId(new_rel_n)
     IN  IF rel.Type = "slide" \/ target_exists
         THEN /\ loc' = [loc EXCEPT !.j = @ + 1]
              /\ UNCHANGED <<tree, hist>>
         ELSE /\ tree' = [tree EXCEPT !.rels = Append(@,
                            Rel(new_rid, rel.Type, rel.Target,
                                IF rel.Mode = "External" THEN "External" ELSE "Internal"))]
              /\ loc' = [loc EXCEPT !.max_rel_id = new_rel_n,
                                    !.rid_mapping = (rel.Id :> new_rid) @@ @,
                                    !.j = @ + 1]
              /\ hist' = [hist EXCEPT !.relIds = Append(@, new_rid)]
  /\ UNCHANGED <<sm, par, disk, prog, pc, base_ppt, add_ppt, out_file, temp_dir, base_dir, result>>

\* lines 227-230: write the three parsed documents
Mk3_Save ==
  /\ prog = "mk3" /\ pc = "other_rels" /\ loc.j > Len(add_ppt.rels)
  /\ base_dir' = [base_dir EXCEPT !.lst = tree.lst, !.rels = tree.rels,
                                  !.overrides = loc.overrides]
  /\ pc' = "package"
  /\ UNCHANGED <<sm, par, disk, prog, base_ppt, add_ppt, out_file, temp_dir, tree, loc, hist, result>>

\* lines 232-245: remove the file at the output path and zip the staged target
Mk3_CreatePptx ==
  /\ prog = "mk3" /\ pc = "package"
  /\ out_file' = create_pptx(base_dir)
  /\ hist' = [hist EXCEPT !.produced = TRUE]
  /\ pc' = "cleanup"
  /\ UNCHANGED <<sm, par, disk, prog, base_ppt, add_ppt, temp_dir, base_dir, tree, loc, result>>

\* lines 247-250, and the end of the script (lines 253-259)
Mk3_Return ==
  /\ prog = "mk3" /\ pc = "cleanup"
  /\ temp_dir' = FALSE
  /\ result' = [status |-> "returned", value |-> "output_pptx", warnings |-> <<>>, exit |-> 0]
  /\ hist' = [hist EXCEPT !.printed = Append(@, "Created merged presentation")]
  /\ pc' = "done"
  /\ UNCHANGED <<sm, par, disk, prog, base_ppt, add_ppt, out_file, base_dir, tree, loc>>

Mk3_Next ==
  \/ Mk3_Extract
  \/ Mk3_Parse
  \/ Mk3_CopyFolders
  \/ Mk3_ContentTypes
  \/ Mk3_Slide
  \/ Mk3_SlidesDone
  \/ Mk3_OtherRel
  \/ Mk3_Save
  \/ Mk3_CreatePptx
  \/ Mk3_Return

(***************************************************************************)
(* mk4.py.  The presentations are python-pptx objects; of that library the *)
(* model keeps that opening an unreadable archive raises, that add_slide   *)
(* appends a unit reference with the next free id and relationship id, and *)
(* that the steps of the inner try block may raise.                        *)
(***************************************************************************)
\* layout.name.lower()
Lower(name) ==
  CASE name = "Blank" -> "blank"
    [] name = "Title Slide" -> "title slide"
    [] name = "Title Only" -> "title only"
    [] name = "Content" -> "content"
    [] name = ".PPTX" -> ".pptx"
    [] OTHER -> name

\* lines 37-46: the first layout with a generic name, else the first layout,
\* else none ("")
DefaultLayout(layouts) ==
  LET ks == {k \in DOMAIN layouts : Lower(layouts[k]) \in {"blank", "title only", "content"}}
  IN  IF ks # {} THEN layouts[CHOOSE k \in ks : \A j \in ks : k <= j]
      ELSE IF layouts # <<>> THEN layouts[1]
      ELSE ""

\* lines 120-122: the script is started with the wrong number of arguments
Mk4_Usage ==
  /\ prog = "mk4" /\ pc = "start" /\ loc.argc # 4
  /\ hist' = [hist EXCEPT !.printed = Append(@, "Usage: python merge_pptx.py pptx1 pptx2 output_pptx")]
  /\ result' = [status |-> "exited", value |-> "", warnings |-> <<>>, exit |-> 0]
  /\ pc' = "done"
  /\ UNCHANGED <<sm, par, disk, prog, base_ppt, add_ppt, out_file, temp_dir, base_dir, tree, loc>>

\* lines 19-28: make the staging directory, copy the first presentation into
\* it and open both presentations
Mk4_Open ==
  /\ prog = "mk4" /\ pc = "start" /\ loc.argc = 4
  /\ temp_dir' = TRUE
  /\ IF base_ppt.readable /\ add_ppt.readable
     THEN /\ base_dir' = base_ppt
          /\ tree' = [hasLst |-> TRUE, lst |-> base_ppt.lst, rels |-> base_ppt.rels]
          /\ pc' = "layout"
          /\ hist' = hist
     ELSE /\ Raise("open") /\ UNCHANGED <<base_dir, tree>>
  /\ UNCHANGED <<sm, par, disk, prog, base_ppt, add_ppt, out_file, loc, result>>

\* lines 30-50 and 109-111: pick the layout of the new slides
Mk4_Layout ==
  /\ prog = "mk4" /\ pc = "layout"
  /\ loc' = [loc EXCEPT !.default_layout = DefaultLayout(base_dir.layouts), !.i = 1]
  /\ IF DefaultLayout(base_dir.layouts) = ""
     THEN /\ pc' = "finally"
          /\ hist' = [hist EXCEPT !.failedAt = "no_layout",
                        !.printed = Append(@, "No suitable layout found in the first presentation")]
     ELSE /\ pc' = "loop"
          /\ hist' = [hist EXCEPT !.printed = Append(@, "Using layout")]
  /\ UNCHANGED <<sm, par, disk, prog, base_ppt, add_ppt, out_file, temp_dir, base_dir, tree, result>>

\* lines 53-103: one slide of the second presentation.  A new slide is added
\* to the first presentation; the steps of the inner try block succeed or
\* raise, and what they raise is caught at line 101
Mk4_Slide ==
  /\ prog = "mk4" /\ pc = "loop" /\ loc.i <= Len(add_ppt.lst)
  /\ \E inner_ok \in BOOLEAN :
       LET new_id == NextId(SeedSlideId(tree.lst))
           new_rid == RId(NextId(Mk3SeedRelId(tree.rels)))
           new_slide == NewSlidePath(Len(tree.lst) + 1)
       IN  /\ tree' = [tree EXCEPT
                !.lst = Append(@, [id |-> new_id, nsid |-> (OfficeDocRel :> new_rid)]),
                !.rels = Append(@, Rel(new_rid, "slide", new_slide, "Internal"))]
           /\ hist' = [hist EXCEPT
                !.printed = Append(@, IF inner_ok THEN "Saved temporary slide"
                                      ELSE "Error processing slide")]
  /\ loc' = [loc EXCEPT !.i = @ + 1]
  /\ UNCHANGED <<sm, par, disk, prog, pc, base_ppt, add_ppt, out_file, temp_dir, base_dir, result>>

\* lines 105-108: save the first presentation at the output path
Mk4_SaveMerged ==
  /\ prog = "mk4" /\ pc = "loop" /\ loc.i > Len(add_ppt.lst)
  /\ out_file' = [base_dir EXCEPT !.lst = tree.lst, !.rels = tree.rels]
  /\ hist' = [hist EXCEPT !.produced = TRUE,
                          !.printed = Append(@, "Merged presentation saved")]
  /\ pc' = "finally"
  /\ UNCHANGED <<sm, par, disk, prog, base_ppt, add_ppt, temp_dir, base_dir, tree, loc, result>>

\* lines 112-114
Mk4_Except ==
  /\ prog = "mk4" /\ pc = "except"
  /\ hist' = [hist EXCEPT !.printed = Append(@, "Error during merge")]
  /\ pc' = "finally"
  /\ UNCHANGED <<sm, par, disk, prog, base_ppt, add_ppt, out_file, temp_dir, base_dir, tree, loc, result>>

\* lines 115-118, and the end of the script (line 124): the caller drops the
\* returned value and the interpreter exits with code 0
Mk4_Finally ==
  /\ prog = "mk4" /\ pc = "finally"
  /\ temp_dir' = FALSE
  /\ result' = [status |-> "returned",
                value |-> IF hist.produced THEN "output_path" ELSE "None",
                warnings |-> <<>>, exit |-> 0]
  /\ pc' = "done"
  /\ UNCHANGED <<sm, par, disk, prog, base_ppt, add_ppt, out_file, base_dir, tree, loc, hist>>

Mk4_Next ==
  \/ Mk4_Usage
  \/ Mk4_Open
  \/ Mk4_Layout
  \/ Mk4_Slide
  \/ Mk4_SaveMerged
  \/ Mk4_Except
  \/ Mk4_Finally

(***************************************************************************)
(* mk2.py                                                                  *)
(***************************************************************************)
\* output_path + '.pptx': a path name is the sequence of its pieces
StrCat(path, suffix) == Append(path, suffix)

\* os.path.basename(slide_path), as the part of that name in ppt/slides
Basename(slide_path) == PptFile("slides", slide_path.stem, slide_path.ext)

\* lines 17-32: make the staging directory and extract both archives
Mk2_Extract ==
  /\ prog = "mk2" /\ pc = "start"
  /\ temp_dir' = TRUE
  /\ IF base_ppt.readable /\ add_ppt.readable
     THEN /\ base_dir' = base_ppt /\ pc' = "parse" /\ UNCHANGED <<hist, result>>
     ELSE /\ base_dir' = IF base_ppt.readable THEN base_ppt ELSE base_dir
          /\ Uncaught("extract")
  /\ UNCHANGED <<sm, par, disk, prog, base_ppt, add_ppt, out_file, tree, loc>>

\* lines 34-86: parse the main documents, find both unit lists by the
\* namespace of the first, seed the counters
Mk2_Parse ==
  /\ prog = "mk2" /\ pc = "parse"
  /\ IF ~base_dir.hasLst \/ ~(add_ppt.hasLst /\ add_ppt.ns = base_dir.ns)
     THEN /\ Uncaught("ValueError") /\ UNCHANGED <<tree, loc>>
     ELSE /\ tree' = [hasLst |-> TRUE, lst |-> base_dir.lst, rels |-> base_dir.rels]
          /\ loc' = [loc EXCEPT !.max_slide_id = Mk3SeedSlideId(base_dir.lst),
                                !.max_rel_id = Mk3SeedRelId(base_dir.rels),
                                !.i = 1]
          /\ hist' = [hist EXCEPT !.seeded = TRUE,
                                  !.seedUnit = Mk3SeedSlideId(base_dir.lst),
                                  !.seedRel = Mk3SeedRelId(base_dir.rels)]
          /\ pc' = "loop"
          /\ UNCHANGED result
  /\ UNCHANGED <<sm, par, disk, prog, base_ppt, add_ppt, out_file, temp_dir, base_dir>>

\* lines 92-143: one source unit reference.  Line 94 reads the id attribute
\* of the namespace ns of the first presentation's root element
Mk2_Slide ==
  /\ prog = "mk2" /\ pc = "loop" /\ loc.i <= Len(add_ppt.lst)
  /\ LET slide_id == add_ppt.lst[loc.i]
         ns == base_dir.ns
         old_rid == GetNsId(slide_id, ns)
         new_id == NextId(loc.max_slide_id)
         new_rel_n == NextId(loc.max_rel_id)
         new_rid == RId(new_rel_n)
         found == FirstWithId(add_ppt.rels, old_rid)
         ids == [hist EXCEPT !.unitIds = Append(@, new_id), !.relIds = Append(@, new_rid)]
     IN  IF found = {}
         THEN /\ loc' = [loc EXCEPT !.max_slide_id = new_id, !.max_rel_id = new_rel_n,
                                    !.rid_mapping = (old_rid :> new_rid) @@ @,
                                    !.i = @ + 1]
              /\ hist' = [ids EXCEPT !.skipped = Append(@, loc.i)]
              /\ UNCHANGED <<pc, base_dir, tree, result>>
         ELSE LET slide_path == (CHOOSE r \in found : TRUE).Target
                  old_slide_path == join(<<"ppt">>, slide_path)
                  new_slide_path == Basename(slide_path)
              IN  IF old_slide_path \notin DOMAIN add_ppt.files
                  THEN \* shutil.copy2 raises FileNotFoundError
                       /\ pc' = "done"
                       /\ hist' = [ids EXCEPT !.failedAt = "copy2"]
                       /\ result' = [status |-> "raised", value |-> "copy2",
                                     warnings |-> <<>>, exit |-> 1]
                       /\ UNCHANGED <<base_dir, tree, loc>>
                  ELSE /\ base_dir' = [base_dir EXCEPT
                            !.files = (new_slide_path :> add_ppt.files[old_slide_path]) @@ @,
                            !.relDocs = IF old_slide_path \in DOMAIN add_ppt.relDocs
                                        THEN (new_slide_path :> add_ppt.relDocs[old_slide_path]) @@ @
                                        ELSE @]
                       /\ tree' = [tree EXCEPT
                            !.lst = Append(@, [id |-> new_id, nsid |-> (ns :> new_rid)]),
                            !.rels = Append(@, Rel(new_rid, "slide",
                                        Top("slides", slide_path.stem, slide_path.ext), "Internal"))]
                       /\ loc' = [loc EXCEPT !.max_slide_id = new_id, !.max_rel_id = new_rel_n,
                                             !.rid_mapping = (old_rid :> new_rid) @@ @,
                                             !.i = @ + 1]
                       /\ hist' = [ids EXCEPT
                            !.copies = Append(@, [from |-> old_slide_path, to |-> new_slide_path,
                                                  existed |-> new_slide_path \in DOMAIN base_dir.files]),
                            !.added = Append(@, [k |-> loc.i, from |-> old_slide_path,
                                                 to |-> new_slide_path,
                                                 existed |-> new_slide_path \in DOMAIN base_dir.files,
                                                 id |-> new_id, rid |-> new_rid, wrote |-> FALSE])]
                       /\ UNCHANGED <<pc, result>>
  /\ UNCHANGED <<sm, par, disk, prog, base_ppt, add_ppt, out_file, temp_dir>>

Mk2Folders == {"charts", "media", "embeddings", "theme"}

\* The entries of the source that lines 146-175 copy.  A file directly in
\* ppt/<folder> is copied over what is there (line 158); a subdirectory,
\* _rels included, is copied when the target has no entry of its name (lines
\* 159-161); the files of ppt/charts/_rels are copied over what is there
\* (line 175)
Mk2FilesToCopy(base, add) ==
  {p \in DOMAIN add.files :
     \/ Len(p.dir) = 2 /\ p.dir[1] = "ppt" /\ p.dir[2] \in Mk2Folders
     \/ /\ Len(p.dir) > 2 /\ p.dir[1] = "ppt" /\ p.dir[2] \in Mk2Folders
        /\ ~\E q \in (DOMAIN base.files) \cup (DOMAIN base.relDocs) :
              Len(q.dir) > 2 /\ SubSeq(q.dir, 1, 3) = SubSeq(p.dir, 1, 3)}
Mk2DocsToCopy(base, add) ==
  {p \in DOMAIN add.relDocs :
     /\ Len(p.dir) = 2 /\ p.dir[1] = "ppt" /\ p.dir[2] \in Mk2Folders
     /\ \/ p.dir[2] = "charts"
        \/ ~\E q \in DOMAIN base.relDocs : q.dir = p.dir}

\* lines 145-175: copy the folders of charts, media, embeddings and themes
Mk2_CopyFolders ==
  /\ prog = "mk2" /\ pc = "loop" /\ loc.i > Len(add_ppt.lst)
  /\ LET fs == Mk2FilesToCopy(base_dir, add_ppt)
         ds == Mk2DocsToCopy(base_dir, add_ppt)
     IN  base_dir' = [base_dir EXCEPT
           !.files = [p \in fs |-> add_ppt.files[p]] @@ @,
           !.relDocs = [p \in ds |-> add_ppt.relDocs[p]] @@ @]
  /\ pc' = "content_types"
  /\ UNCHANGED <<sm, par, disk, prog, base_ppt, add_ppt, out_file, temp_dir, tree, loc, hist, result>>

\* lines 177-195: the Override elements of the source whose PartName the
\* target does not declare are appended to the target's
Mk2_ContentTypes ==
  /\ prog = "mk2" /\ pc = "content_types"
  /\ IF ~base_dir.hasCT \/ ~add_ppt.hasCT
     THEN /\ Uncaught("content_types") /\ UNCHANGED loc
     ELSE /\ loc' = [loc EXCEPT !.overrides = base_dir.overrides @@ add_ppt.overrides]
          /\ pc' = "save"
          /\ UNCHANGED <<hist, result>>
  /\ UNCHANGED <<sm, par, disk, prog, base_ppt, add_ppt, out_file, temp_dir, base_dir, tree>>

\* lines 197-200: write the three parsed documents
Mk2_Save ==
  /\ prog = "mk2" /\ pc = "save"
  /\ base_dir' = [base_dir EXCEPT !.lst = tree.lst, !.rels = tree.rels,
                                  !.overrides = loc.overrides]
  /\ pc' = "package"
  /\ UNCHANGED <<sm, par, disk, prog, base_ppt, add_ppt, out_file, temp_dir, tree, loc, hist, result>>

\* lines 202-208: shutil.make_archive writes output_path + '.zip'; the file
\* at output_path + '.pptx' is removed and the archive renamed to that name
Mk2_MakeArchive ==
  /\ prog = "mk2" /\ pc = "package"
  /\ LET zip_name == StrCat(loc.output_path, ".zip")
         pptx_name == StrCat(loc.output_path, ".pptx")
         archived == (zip_name :> create_pptx(base_dir)) @@ disk
         others == [n \in (DOMAIN archived) \ {zip_name, pptx_name} |-> archived[n]]
     IN  disk' = (pptx_name :> archived[zip_name]) @@ others
  /\ hist' = [hist EXCEPT !.produced = TRUE]
  /\ pc' = "cleanup"
  /\ UNCHANGED <<sm, par, prog, base_ppt, add_ppt, out_file, temp_dir, base_dir, tree, loc, result>>

\* lines 210-213, and the end of the script (lines 216-222)
Mk2_Return ==
  /\ prog = "mk2" /\ pc = "cleanup"
  /\ temp_dir' = FALSE
  /\ result' = [status |-> "returned", value |-> StrCat(loc.output_path, ".pptx"),
                warnings |-> <<>>, exit |-> 0]
  /\ hist' = [hist EXCEPT !.printed = Append(@, "Created merged presentation")]
  /\ pc' = "done"
  /\ UNCHANGED <<sm, par, disk, prog, base_ppt, add_ppt, out_file, base_dir, tree, loc>>

Mk2_Next ==
  \/ Mk2_Extract
  \/ Mk2_Parse
  \/ Mk2_Slide
  \/ Mk2_CopyFolders
  \/ Mk2_ContentTypes
  \/ Mk2_Save
  \/ Mk2_MakeArchive
  \/ Mk2_Return

(***************************************************************************)
(* mk5.py.  The script is started with loc.argc positional arguments; the  *)
(* file at the first is base_ppt, at the second add_ppt, at the third      *)
(* out_file.  Of python-pptx the model keeps what it keeps for mk4.py.     *)
(***************************************************************************)
\* The name of the k-th positional argument
ArgName(k) ==
  CASE k = 1 -> <<"input_ppt1", ".pptx">>
    [] k = 2 -> loc.name2
    [] OTHER -> <<"output_ppt", ".pptx">>

\* The file at the k-th positional argument
ArgFile(k) ==
  CASE k = 1 -> base_ppt
    [] k = 2 -> add_ppt
    [] OTHER -> out_file

\* file.lower().endswith(('.pptx', '.ppt'))
EndsWithPpt(name) == Lower(name[Len(name)]) \in {".pptx", ".ppt"}

\* line 277: merge_presentations(args.input_files[:-1], args.input_files[-1]),
\* where argparse has put every positional argument but the last into
\* args.input_files.  The positions of the arguments the call passes as
\* input_files, and the position of the one it passes as output_file
InputFiles(argc) == 1..(argc - 2)
OutputFile(argc) == argc - 1

\* The end of main: sys.exit(1) at line 280, or the end of the script
Mk5Exit(code, message) ==
  /\ pc' = "done"
  /\ result' = [status |-> "exited", value |-> "", warnings |-> <<>>, exit |-> code]
  /\ hist' = [hist EXCEPT !.printed = Append(@, message),
                          !.failedAt = IF code = 0 THEN @ ELSE message]

\* lines 266-271: argparse wants one input file and the output file at least
Mk5_ParseArgs ==
  /\ prog = "mk5" /\ pc = "start"
  /\ IF loc.argc < 2
     THEN Mk5Exit(2, "usage")
     ELSE pc' = "validate" /\ UNCHANGED <<hist, result>>
  /\ UNCHANGED <<sm, par, disk, prog, base_ppt, add_ppt, out_file, temp_dir, base_dir, tree, loc>>

\* lines 239 and 21-39: validate_files
Mk5_Validate ==
  /\ prog = "mk5" /\ pc = "validate"
  /\ IF \E k \in InputFiles(loc.argc) : ArgFile(k) = NoFile
     THEN Mk5Exit(1, "Input file not found")
     ELSE IF \E k \in InputFiles(loc.argc) : ~EndsWithPpt(ArgName(k))
     THEN Mk5Exit(1, "Input file is not a PowerPoint file")
     ELSE IF ~EndsWithPpt(ArgName(OutputFile(loc.argc)))
     THEN Mk5Exit(1, "Output file is not a PowerPoint file")
     ELSE pc' = "open" /\ UNCHANGED <<hist, result>>
  /\ UNCHANGED <<sm, par, disk, prog, base_ppt, add_ppt, out_file, temp_dir, base_dir, tree, loc>>

\* line 242: merged_pres = Presentation(input_files[0])
Mk5_Open ==
  /\ prog = "mk5" /\ pc = "open"
  /\ IF InputFiles(loc.argc) = {}
     THEN Mk5Exit(1, "list index out of range") /\ UNCHANGED <<base_dir, tree, loc>>
     ELSE IF ~base_ppt.readable
     THEN Mk5Exit(1, "Package not found") /\ UNCHANGED <<base_dir, tree, loc>>
     ELSE /\ base_dir' = base_ppt
          /\ tree' = [hasLst |-> TRUE, lst |-> base_ppt.lst, rels |-> base_ppt.rels]
          /\ loc' = [loc EXCEPT !.j = 2, !.i = 1]
          /\ pc' = "sources"
          /\ UNCHANGED <<hist, result>>
  /\ UNCHANGED <<sm, par, disk, prog, base_ppt, add_ppt, out_file, temp_dir>>

\* lines 245-252: open the next presentation of input_files[1:]
Mk5_OpenSource ==
  /\ prog = "mk5" /\ pc = "sources" /\ loc.j \in InputFiles(loc.argc)
  /\ IF ~ArgFile(loc.j).readable
     THEN Mk5Exit(1, "Package not found") /\ UNCHANGED loc
     ELSE /\ pc' = "slides"
          /\ loc' = [loc EXCEPT !.i = 1]
          /\ hist' = [hist EXCEPT !.printed = Append(@, "Processing presentation")]
          /\ UNCHANGED result
  /\ UNCHANGED <<sm, par, disk, prog, base_ppt, add_ppt, out_file, temp_dir, base_dir, tree>>

\* source_slide.slide_layout.name: the name of the layout the slide's
\* relationship document names
LayoutIndex(stem) == IF stem = "slideLayout1" THEN 1 ELSE 2
SlideLayoutName(pkg, slide_part) ==
  LET rels == pkg.relDocs[slide_part].rels
      k == CHOOSE j \in DOMAIN rels : rels[j].Type = "slideLayout"
  IN  pkg.layouts[LayoutIndex(rels[k].Target.stem)]

\* lines 255-257 and 53-81: copy_slide for one slide of the source.  The
\* layout of the new slide is the target's layout of the same name, else the
\* target's first layout; what copying the background or a shape raises is
\* caught and logged
Mk5_CopySlide ==
  /\ prog = "mk5" /\ pc = "slides" /\ loc.i <= Len(ArgFile(loc.j).lst)
  /\ LET source_pres == ArgFile(loc.j)
         source_slide == join(<<"ppt">>,
            (CHOOSE r \in FirstWithId(source_pres.rels, RIdOf(source_pres.lst[loc.i])) : TRUE).Target)
         name == SlideLayoutName(source_pres, source_slide)
         new_id == NextId(SeedSlideId(tree.lst))
         new_rid == RId(NextId(Mk3SeedRelId(tree.rels)))
         new_slide == NewSlidePath(Len(tree.lst) + 1)
     IN  IF name \notin Range(base_dir.layouts) /\ base_dir.layouts = <<>>
         THEN Mk5Exit(1, "list index out of range") /\ UNCHANGED <<tree, loc>>
         ELSE /\ \E shapes_ok \in BOOLEAN :
                   hist' = [hist EXCEPT
                      !.printed = Append(@, IF shapes_ok THEN "Copying slide"
                                            ELSE "Error copying shape"),
                      !.added = Append(@, [k |-> loc.i, from |-> source_slide,
                                           to |-> join(<<"ppt">>, new_slide), existed |-> FALSE,
                                           id |-> new_id, rid |-> new_rid, wrote |-> FALSE])]
              /\ tree' = [tree EXCEPT
                   !.lst = Append(@, [id |-> new_id, nsid |-> (OfficeDocRel :> new_rid)]),
                   !.rels = Append(@, Rel(new_rid, "slide", new_slide, "Internal"))]
              /\ loc' = [loc EXCEPT !.i = @ + 1]
              /\ UNCHANGED <<pc, result>>
  /\ UNCHANGED <<sm, par, disk, prog, base_ppt, add_ppt, out_file, temp_dir, base_dir>>

\* line 255: the slides of this presentation are done
Mk5_SourceDone ==
  /\ prog = "mk5" /\ pc = "slides" /\ loc.i > Len(ArgFile(loc.j).lst)
  /\ loc' = [loc EXCEPT !.j = @ + 1]
  /\ pc' = "sources"
  /\ UNCHANGED <<sm, par, disk, prog, base_ppt, add_ppt, out_file, temp_dir, base_dir, tree, hist, result>>

\* lines 259-262: merged_pres.save(output_file), and the end of main
Mk5_Save ==
  /\ prog = "mk5" /\ pc = "sources" /\ loc.j \notin InputFiles(loc.argc)
  /\ LET merged_pres == [base_dir EXCEPT !.lst = tree.lst, !.rels = tree.rels]
         k == OutputFile(loc.argc)
     IN  /\ add_ppt' = IF k = 2 THEN merged_pres ELSE add_ppt
         /\ out_file' = IF k = 3 THEN merged_pres ELSE out_file
  /\ pc' = "done"
  /\ result' = [status |-> "exited", value |-> "", warnings |-> <<>>, exit |-> 0]
  /\ hist' = [hist EXCEPT !.produced = TRUE,
                          !.printed = Append(@, "Merge completed successfully!")]
  /\ UNCHANGED <<sm, par, disk, prog, base_ppt, temp_dir, base_dir, tree, loc>>

Mk5_Next ==
  \/ Mk5_ParseArgs
  \/ Mk5_Validate
  \/ Mk5_Open
  \/ Mk5_OpenSource
  \/ Mk5_CopySlide
  \/ Mk5_SourceDone
  \/ Mk5_Save

(***************************************************************************)
(* The runs.                                                               *)
(***************************************************************************)
\* A file that is at output_path before the run
OldFile == [NoFile EXCEPT !.readable = TRUE]

\* The source packages mk2.py is run on: packages as an office suite writes
\* them, and packages whose unit references carry their relationship id a
\* second time, as an id attribute of the namespace of the root element
WithPmlId(pkg) ==
  [pkg EXCEPT !.lst = [k \in DOMAIN pkg.lst |->
     [pkg.lst[k] EXCEPT !.nsid = (PML :> RIdOf(pkg.lst[k])) @@ @]]]
Mk2SrcPkgs ==
  LET std == {SrcPkg(rids, TRUE, MalformedDoc, FALSE) :
                rids \in SeqsUpTo({RId(2), RId(4)}, MaxSrcUnits)}
  IN  std \cup {WithPmlId(a) : a \in std} \cup {SrcNoLst, Unreadable}

\* The second presentation mk5.py is run on: packages python-pptx opens,
\* whose slides name their layout; an archive it cannot open; no file
Mk5SrcPkgs ==
  {SrcPkg(rids, TRUE, d, FALSE) :
     rids \in SeqsUpTo({RId(2), RId(3)}, MaxSrcUnits),
     d \in {e \in SlideDocChoices : \E k \in DOMAIN e.rels : e.rels[k].Type = "slideLayout"}}
    \cup {Unreadable, NoFile}

\* The source packages a script is run on.  mk3.py reads the r:id attribute
\* by its own namespace, so a second id attribute changes nothing for it;
\* mk4.py is run on packages python-pptx can iterate or cannot open.
SrcPkgsOf(script) ==
  IF script = "copy_elements_method" THEN SrcPkgs
  ELSE IF script = "mk3"
  THEN {a \in SrcPkgs : \A k \in DOMAIN a.lst : DOMAIN a.lst[k].nsid = {OfficeDocRel}}
  ELSE IF script = "mk2" THEN Mk2SrcPkgs
  ELSE IF script = "mk5" THEN Mk5SrcPkgs
  ELSE {a \in SrcPkgs :
          /\ \A k \in DOMAIN a.lst : /\ DOMAIN a.lst[k].nsid = {OfficeDocRel}
                                     /\ RIdOf(a.lst[k]) \in {RId(2), RId(3)}
          /\ a.readable => SrcSlide(1) \notin DOMAIN a.relDocs}

\* The target packages a script is run on
BasePkgsOf(script) ==
  IF script = "mk2"
  THEN {BasePkg(nb, 256, off) : nb \in 0..MaxBaseUnits, off \in {0, 1}}
         \cup {BaseNoLst, BaseNoCT, Unreadable}
  ELSE IF script = "mk5"
  THEN {BasePkg(nb, 256, 0) : nb \in 0..MaxBaseUnits} \cup {BaseNoLayouts, Unreadable, NoFile}
  ELSE BasePkgs

\* len(sys.argv) of the runs of mk4.py, and the number of positional
\* arguments of the runs of mk5.py
ArgcOf(script) ==
  IF script = "mk4" THEN {3, 4}
  ELSE IF script = "mk5" THEN {1, 2, 3, 4}
  ELSE {1}

\* The output_path mk2.merge_presentations is called with
OutputPathsOf(script) ==
  IF script = "mk2" THEN {<<"merged_presentation">>, <<"merged", ".pptx">>} ELSE {<<>>}

\* The second positional argument of mk5.py
Name2Of(script) ==
  IF script = "mk5"
  THEN {<<"input_ppt2", ".pptx">>, <<"input_ppt2", ".PPTX">>, <<"input_ppt2", ".odp">>}
  ELSE {<<>>}

\* The files at other paths than the three arguments: for mk2.py there may
\* be one at output_path + '.pptx'
DisksOf(script, output_path) ==
  IF script = "mk2"
  THEN {<<>>, (StrCat(output_path, ".pptx") :> OldFile)}
  ELSE {<<>>}

Init ==
  /\ prog \in {"copy_elements_method", "mk3", "mk4", "mk2", "mk5"}
  /\ pc = "start"
  /\ base_ppt \in BasePkgsOf(prog)
  /\ add_ppt \in SrcPkgsOf(prog)
  /\ out_file \in {NoFile, OldFile}
  /\ temp_dir = FALSE
  /\ base_dir = NoFile
  /\ tree = NoTree
  /\ \E n \in ArgcOf(prog), o \in OutputPathsOf(prog), n2 \in Name2Of(prog) :
       /\ loc = [NoLoc EXCEPT !.argc = n, !.output_path = o, !.name2 = n2]
       /\ disk \in DisksOf(prog, o)
  /\ hist = [NoHist EXCEPT !.out0 = out_file # NoFile, !.add0 = add_ppt]
  /\ result = Running
  /\ par = NoPar
  /\ sm = NoSM

Next ==
  \/ CEM_Next
  \/ Mk3_Next
  \/ Mk4_Next
  \/ Mk2_Next
  \/ Mk5_Next

Spec == Init /\ [][Next]_vars

(***************************************************************************)
(* state_manager.py.  sm holds the class attributes of StateManager, the   *)
(* _state of every instance made, the persistence file, and the threads:   *)
(*   scen, initial       what the threads are to do, and the value of      *)
(*                       state['counter'] they start from                  *)
(*   instance            cls._instance: 0 for None, else the instance      *)
(*   made, initialized   how many instances were made, and how many times  *)
(*                       _initialize was called                            *)
(*   maker               the thread that made the last instance (0: the    *)
(*                       import of the module did, or nobody)              *)
(*   states              the _state dictionary of each instance            *)
(*   lock                cls._lock: its owner (0: free) and its depth      *)
(*   auto_persist, persistence_thread, worker                              *)
(*                       _auto_persist; whether _persistence_thread is set *)
(*                       (it is never set back to None); where the worker  *)
(*                       thread is                                         *)
(*   file                what is at _persist_file                          *)
(*   th                  per thread: the operations it has still to do,    *)
(*                       its position in the current one, what its calls   *)
(*                       of StateManager() returned, whether one raised,   *)
(*                       the instance it uses, its locals, whether its     *)
(*                       setdefault stored its default, what its calls of  *)
(*                       setdefault returned                               *)
(***************************************************************************)
NThreads == 2
Iterations == 2
MaxCalls == 3

Threads == 1..NThreads
WorkerId == NThreads + 1

runVars == <<prog, pc, base_ppt, add_ppt, out_file, temp_dir, base_dir, tree, loc,
             hist, result, disk>>

\* threading.RLock: a thread acquires the lock when it is free or its own
CanAcquirePlainLock(lock, t) == lock.owner = 0
CanAcquireUnlocked(lock, t) == TRUE
CanAcquire(lock, t) == lock.owner = 0 \/ lock.owner = t

Acquire(lock, t) == [owner |-> t, count |-> lock.count + 1]
Release(lock) ==
  IF lock.count <= 1 THEN [owner |-> 0, count |-> 0]
  ELSE [lock EXCEPT !.count = @ - 1]

\* self._state.get(key, None)
DictGet(d, key) == IF key \in DOMAIN d THEN d[key] ELSE None
\* self._state[key] = value
DictSet(d, key, value) == (key :> value) @@ d

\* What _persist_file may hold when the first instance is made: nothing, a
\* pickled dictionary, a pickled list, a truncated pickle (EOFError), a
\* pickle of an object whose class is gone (AttributeError)
Pickled(d) == [kind |-> "dict", dict |-> d]
PersistFiles ==
  { NoPickle, Pickled(("saved" :> 7)), [kind |-> "list", dict |-> <<>>],
    [kind |-> "truncated", dict |-> <<>>], [kind |-> "bad_class", dict |-> <<>>] }

\* _try_load_state: the dictionary the instance has afterwards
LoadedState(file, state) == IF file.kind = "dict" THEN file.dict ELSE state
\* pickle.load raises something other than PickleError, EOFError, IOError
LoadRaises(file) == file.kind = "bad_class"

IdleThread == [todo |-> <<>>, pc |-> "idle", rets |-> <<>>, raised |-> FALSE,
               inst |-> 0, sawNone |-> FALSE, current |-> None, stored |-> FALSE,
               got |-> <<>>]

\* The class as its definition leaves it (lines 14-19), and the threads
Fresh == [NoSM EXCEPT !.th = [t \in Threads |-> IdleThread]]

\* The class as line 178 leaves it: one instance, initialized from file
Imported(file) ==
  [Fresh EXCEPT !.instance = 1, !.made = 1, !.initialized = 1,
               !.states = (1 :> LoadedState(file, <<>>)), !.file = file,
               !.th = [t \in Threads |-> [IdleThread EXCEPT !.inst = 1]]]

Cur(t) == sm.th[t]
Op(t) == Cur(t).todo[1]
\* The thread begins the next operation of its list
Begin(t, op) == Cur(t).pc = "idle" /\ Cur(t).todo # <<>> /\ Op(t) = op
\* The thread has finished the current operation
Finish(thread) == [thread EXCEPT !.todo = Tail(@), !.pc = "idle"]
SetTh(t, thread) == [sm EXCEPT !.th[t] = thread]

\* line 23: with cls._lock
SM_NewAcquire(t) ==
  /\ Begin(t, "new") /\ CanAcquire(sm.lock, t)
  /\ sm' = [sm EXCEPT !.lock = Acquire(@, t), !.th[t].pc = "new_check"]
  /\ UNCHANGED <<runVars, par>>

\* line 24: if cls._instance is None
InstanceIsNone(instance) == instance = 0

SM_NewCheck(t) ==
  /\ Cur(t).pc = "new_check"
  /\ sm' = [sm EXCEPT !.th[t].sawNone = InstanceIsNone(sm.instance),
                      !.th[t].pc = IF InstanceIsNone(sm.instance) THEN "new_make"
                                   ELSE "new_return"]
  /\ UNCHANGED <<runVars, par>>

\* lines 25-26: make the instance and its empty _state
SM_NewMake(t) ==
  /\ Cur(t).pc = "new_make"
  /\ sm' = [sm EXCEPT !.instance = sm.made + 1,
                      !.made = @ + 1, !.maker = t,
                      !.states = (sm.made + 1 :> <<>>) @@ @,
                      !.th[t].pc = "new_init"]
  /\ UNCHANGED <<runVars, par>>

\* lines 27 and 30-36: _initialize.  What _try_load_state does not catch
\* leaves __new__ through the with statement, which releases the lock
SM_Initialize(t) ==
  /\ Cur(t).pc = "new_init"
  /\ IF LoadRaises(sm.file)
     THEN sm' = [sm EXCEPT !.initialized = @ + 1,
                           !.lock = IF sm.lock.owner = t THEN Release(@) ELSE @,
                           !.th[t] = [Finish(@) EXCEPT !.raised = TRUE, !.todo = <<>>]]
     ELSE sm' = [sm EXCEPT !.initialized = @ + 1,
                           !.states[sm.instance] = LoadedState(sm.file, @),
                           !.th[t].pc = "new_return"]
  /\ UNCHANGED <<runVars, par>>

\* line 28: leave the with statement and return cls._instance
SM_NewReturn(t) ==
  /\ Cur(t).pc = "new_return"
  /\ sm' = [sm EXCEPT !.lock = IF sm.lock.owner = t THEN Release(@) ELSE @,
                      !.th[t] = [Finish(@) EXCEPT !.rets = Append(@, sm.instance),
                                                  !.inst = sm.instance]]
  /\ UNCHANGED <<runVars, par>>

\* The key a thread stores under
KeyOf(t) == "k" \o ToString(t)

\* lines 102-105: __setitem__ on the instance the thread holds
SM_SetItem(t) ==
  /\ Begin(t, "put") /\ CanAcquire(sm.lock, t)
  /\ sm' = [sm EXCEPT !.states[Cur(t).inst] = DictSet(@, KeyOf(t), t),
                      !.th[t] = Finish(@)]
  /\ UNCHANGED <<runVars, par>>

\* line 193: with state._lock
SM_IncAcquire(t) ==
  /\ Begin(t, "inc") /\ CanAcquire(sm.lock, t)
  /\ sm' = [sm EXCEPT !.lock = Acquire(@, t), !.th[t].pc = "inc_get"]
  /\ UNCHANGED <<runVars, par>>

\* line 194 and lines 97-100: current = state['counter']
SM_IncGet(t) ==
  /\ Cur(t).pc = "inc_get" /\ CanAcquire(sm.lock, t)
  /\ sm' = [sm EXCEPT !.th[t].current = DictGet(sm.states[sm.instance], "counter"),
                      !.th[t].pc = "inc_set"]
  /\ UNCHANGED <<runVars, par>>

\* line 195 and lines 102-105: state['counter'] = current + 1
SM_IncSet(t) ==
  /\ Cur(t).pc = "inc_set" /\ CanAcquire(sm.lock, t)
  /\ sm' = [sm EXCEPT !.states[sm.instance] = DictSet(@, "counter", Cur(t).current + 1),
                      !.th[t].pc = "inc_release"]
  /\ UNCHANGED <<runVars, par>>

\* line 193: leave the with statement
SM_IncRelease(t) ==
  /\ Cur(t).pc = "inc_release"
  /\ sm' = [sm EXCEPT !.lock = IF sm.lock.owner = t THEN Release(@) ELSE @,
                      !.th[t] = Finish(@)]
  /\ UNCHANGED <<runVars, par>>

\* The key the threads call setdefault with, and the default of each
SharedKey == "shared"
DefaultOf(t) == 10 * t

\* line 132: key not in self._state
KeyAbsent(d, key) == key \notin DOMAIN d

\* line 131: with self._lock
SM_SetdefaultAcquire(t) ==
  /\ Begin(t, "setdefault") /\ CanAcquire(sm.lock, t)
  /\ sm' = [sm EXCEPT !.lock = Acquire(@, t), !.th[t].pc = "sd_check"]
  /\ UNCHANGED <<runVars, par>>

\* line 132: if key not in self._state
SM_SetdefaultCheck(t) ==
  /\ Cur(t).pc = "sd_check"
  /\ sm' = [sm EXCEPT !.th[t].pc = IF KeyAbsent(sm.states[Cur(t).inst], SharedKey)
                                   THEN "sd_store" ELSE "sd_return"]
  /\ UNCHANGED <<runVars, par>>

\* line 133: self._state[key] = default
SM_SetdefaultStore(t) ==
  /\ Cur(t).pc = "sd_store"
  /\ sm' = [sm EXCEPT !.states[Cur(t).inst] = DictSet(@, SharedKey, DefaultOf(t)),
                      !.th[t].stored = TRUE,
                      !.th[t].pc = "sd_return"]
  /\ UNCHANGED <<runVars, par>>

\* line 134: return self._state[key], leaving the with statement
SM_SetdefaultReturn(t) ==
  /\ Cur(t).pc = "sd_return"
  /\ sm' = [sm EXCEPT !.lock = IF sm.lock.owner = t THEN Release(@) ELSE @,
                      !.th[t] = [Finish(@) EXCEPT
                                   !.got = Append(@, sm.states[Cur(t).inst][SharedKey])]]
  /\ UNCHANGED <<runVars, par>>

\* lines 38-62: enable_persistence(auto_persist); the thread is started when
\* auto_persist is true and _persistence_thread is None
SM_EnablePersistence(t) ==
  /\ Cur(t).pc = "idle" /\ Cur(t).todo # <<>> /\ Op(t) \in {"enable", "disable"}
  /\ CanAcquire(sm.lock, t)
  /\ LET auto_persist == Op(t) = "enable"
         start == auto_persist /\ ~sm.persistence_thread
     IN  sm' = [sm EXCEPT !.auto_persist = auto_persist,
                          !.persistence_thread = @ \/ start,
                          !.worker = IF start THEN "check" ELSE @,
                          !.th[t] = Finish(@)]
  /\ UNCHANGED <<runVars, par>>

\* line 66: while self._auto_persist
SM_WorkerCheck ==
  /\ sm.worker = "check"
  /\ sm' = [sm EXCEPT !.worker = IF sm.auto_persist THEN "sleep" ELSE "exited"]
  /\ UNCHANGED <<runVars, par>>

\* line 67: time.sleep(self._persist_interval)
SM_WorkerSleep ==
  /\ sm.worker = "sleep"
  /\ sm' = [sm EXCEPT !.worker = "persist"]
  /\ UNCHANGED <<runVars, par>>

\* lines 68 and 81-90: self.persist()
SM_WorkerPersist ==
  /\ sm.worker = "persist" /\ CanAcquire(sm.lock, WorkerId)
  /\ sm' = [sm EXCEPT !.file = Pickled(sm.states[sm.instance]), !.worker = "check"]
  /\ UNCHANGED <<runVars, par>>

SM_Thread(t) ==
  \/ SM_NewAcquire(t)
  \/ SM_NewCheck(t)
  \/ SM_NewMake(t)
  \/ SM_Initialize(t)
  \/ SM_NewReturn(t)
  \/ SM_SetItem(t)
  \/ SM_IncAcquire(t)
  \/ SM_IncGet(t)
  \/ SM_IncSet(t)
  \/ SM_IncRelease(t)
  \/ SM_SetdefaultAcquire(t)
  \/ SM_SetdefaultCheck(t)
  \/ SM_SetdefaultStore(t)
  \/ SM_SetdefaultReturn(t)
  \/ SM_EnablePersistence(t)

SM_Worker ==
  \/ SM_WorkerCheck
  \/ SM_WorkerSleep
  \/ SM_WorkerPersist

\* [x] * n
Repeat(x, n) == [k \in 1..n |-> x]

\* The runs of the threads: every thread makes a StateManager, stores a key
\* and makes a StateManager again, on the class before or after line 178;
\* the threads of increment_counter, with or without the worker of line 184;
\* one thread calling enable_persistence up to MaxCalls times; every thread
\* calling setdefault on the same absent key with its own default
SMScenarios ==
  { [s EXCEPT !.scen = "construct",
              !.th = [t \in Threads |-> [s.th[t] EXCEPT !.todo = <<"new", "put", "new">>]]] :
      s \in {[Fresh EXCEPT !.file = f] : f \in PersistFiles}
              \cup {Imported(f) : f \in PersistFiles \ {[kind |-> "bad_class", dict |-> <<>>]}} }
  \cup
  { [Imported(NoPickle) EXCEPT
        !.scen = "increment", !.initial = c,
        !.states = (1 :> ("counter" :> c)),
        !.auto_persist = w, !.persistence_thread = w,
        !.worker = IF w THEN "check" ELSE "none",
        !.th = [t \in Threads |-> [IdleThread EXCEPT !.inst = 1, !.todo = Repeat("inc", Iterations)]]] :
      c \in {0, 5}, w \in BOOLEAN }
  \cup
  { [Imported(NoPickle) EXCEPT
        !.scen = "persist",
        !.th = [t \in Threads |-> [IdleThread EXCEPT !.inst = 1,
                                      !.todo = IF t = 1 THEN calls ELSE <<>>]]] :
      calls \in UNION {[1..n -> {"enable", "disable"}] : n \in 1..MaxCalls} }
  \cup
  { [Imported(NoPickle) EXCEPT
        !.scen = "setdefault",
        !.states = (1 :> d),
        !.auto_persist = w, !.persistence_thread = w,
        !.worker = IF w THEN "check" ELSE "none",
        !.th = [t \in Threads |-> [IdleThread EXCEPT !.inst = 1, !.todo = <<"setdefault">>]]] :
      d \in {<<>>, ("counter" :> 0)}, w \in BOOLEAN }

InitSM ==
  /\ sm \in SMScenarios
  /\ prog = "state_manager" /\ pc = "done"
  /\ base_ppt = NoFile /\ add_ppt = NoFile /\ out_file = NoFile
  /\ temp_dir = FALSE /\ base_dir = NoFile /\ tree = NoTree /\ loc = NoLoc
  /\ hist = NoHist /\ result = Running /\ disk = <<>> /\ par = NoPar

NextSM ==
  \/ \E t \in Threads : SM_Thread(t)
  \/ SM_Worker

\* The interpreter switches between the threads that can run: none of them
\* waits forever while it could take its next step
SpecSM ==
  /\ InitSM /\ [][NextSM]_vars
  /\ \A t \in Threads : WF_vars(SM_Thread(t))
  /\ WF_vars(SM_Worker)

(***************************************************************************)
(* Two runs of copy_elements_method.merge_presentations in flight at once, *)
(* started in the same current directory.  par holds                       *)
(*   inp     the two input archives of each run                            *)
(*   pc      where each run is                                             *)
(*   temp    whether the directory temp_ppt_merge exists                   *)
(*   base    what is staged in temp_ppt_merge/base (NoFile: nothing)       *)
(*   add     what is staged in temp_ppt_merge/add                          *)
(*   out     the file at each run's output_path                            *)
(*   failedAt  the step of each run that raised                            *)
(* The sources are packages whose unit references carry their relationship *)
(* id in the relationships namespace only, so that the loop of lines       *)
(* 77-133 skips every one of them (line 93).                               *)
(***************************************************************************)
Runs == {1, 2}

\* The bytes of the files of run r's inputs differ from the other run's
Tagged(pkg, r) ==
  [pkg EXCEPT !.files = [p \in DOMAIN pkg.files |-> "run" \o ToString(r) \o "/" \o pkg.files[p]]]

\* zip_ref.extractall(extract_dir) into a directory that holds staged
\* already: every member is written, over the file of its name if there is
\* one; the other files stay
Overlay(pkg, staged) ==
  IF staged = NoFile THEN pkg
  ELSE [pkg EXCEPT !.files = pkg.files @@ staged.files,
                   !.relDocs = pkg.relDocs @@ staged.relDocs]

\* create_pptx on a directory that does not exist: os.walk yields nothing
EmptyArchive == [NoFile EXCEPT !.readable = TRUE]

ParRaise(r, where) ==
  [par EXCEPT !.pc[r] = "except", !.failedAt[r] = where]

\* lines 24-27: make the directories that do not exist
Par_MkDirs(r) ==
  /\ par.pc[r] = "start"
  /\ par' = [par EXCEPT !.temp = TRUE, !.pc[r] = "extract_base"]
  /\ UNCHANGED <<runVars, sm>>

\* line 30: extract_pptx(base_ppt_path, base_dir)
Par_ExtractBase(r) ==
  /\ par.pc[r] = "extract_base"
  /\ par' = IF ~par.inp[r].base.readable THEN ParRaise(r, "extract")
            ELSE [par EXCEPT !.temp = TRUE,
                             !.base = Overlay(par.inp[r].base, @),
                             !.pc[r] = "extract_add"]
  /\ UNCHANGED <<runVars, sm>>

\* line 31: extract_pptx(add_ppt_path, add_dir)
Par_ExtractAdd(r) ==
  /\ par.pc[r] = "extract_add"
  /\ par' = IF ~par.inp[r].add.readable THEN ParRaise(r, "extract")
            ELSE [par EXCEPT !.temp = TRUE,
                             !.add = Overlay(par.inp[r].add, @),
                             !.pc[r] = "merge"]
  /\ UNCHANGED <<runVars, sm>>

\* lines 33-137: parse the staged documents, skip every source unit, write
\* presentation.xml and presentation.xml.rels back as parsed
Par_Merge(r) ==
  /\ par.pc[r] = "merge"
  /\ par' = IF par.base = NoFile \/ par.add = NoFile
            THEN ParRaise(r, "FileNotFoundError")
            ELSE IF ~par.base.hasLst THEN ParRaise(r, "sldIdLst")
            ELSE IF \E k \in DOMAIN par.base.rels : IdNotInt(par.base.rels[k].Id)
            THEN ParRaise(r, "rel_ids")
            ELSE [par EXCEPT !.pc[r] = "content_types"]
  /\ UNCHANGED <<runVars, sm>>

\* line 140: update_content_types(base_dir), which returns at line 329 when
\* there is no [Content_Types].xml
Par_UpdateContentTypes(r) ==
  /\ par.pc[r] = "content_types"
  /\ par' = IF par.base = NoFile \/ ~par.base.hasCT
            THEN [par EXCEPT !.pc[r] = "package"]
            ELSE IF ~DirExists(par.base, "slides")
            THEN ParRaise(r, "content_types")
            ELSE [par EXCEPT !.base = update_content_types(@), !.pc[r] = "package"]
  /\ UNCHANGED <<runVars, sm>>

\* lines 142-145: create_pptx(base_dir, output_path)
Par_CreatePptx(r) ==
  /\ par.pc[r] = "package"
  /\ par' = [par EXCEPT !.out[r] = IF par.base = NoFile THEN EmptyArchive
                                   ELSE create_pptx(par.base),
                        !.pc[r] = "finally"]
  /\ UNCHANGED <<runVars, sm>>

\* lines 147-148
Par_Except(r) ==
  /\ par.pc[r] = "except"
  /\ par' = [par EXCEPT !.pc[r] = "finally"]
  /\ UNCHANGED <<runVars, sm>>

\* lines 149-152: shutil.rmtree(temp_dir) if it exists
Par_Finally(r) ==
  /\ par.pc[r] = "finally"
  /\ par' = [par EXCEPT !.temp = FALSE, !.base = NoFile, !.add = NoFile,
                        !.pc[r] = "done"]
  /\ UNCHANGED <<runVars, sm>>

Par_Run(r) ==
  \/ Par_MkDirs(r)
  \/ Par_ExtractBase(r)
  \/ Par_ExtractAdd(r)
  \/ Par_Merge(r)
  \/ Par_UpdateContentTypes(r)
  \/ Par_CreatePptx(r)
  \/ Par_Except(r)
  \/ Par_Finally(r)

ParBasePkgs == {BasePkg(nb, 256, 0) : nb \in 1..MaxBaseUnits} \cup {BaseNoLst, Unreadable}
ParSrcPkgs ==
  {SrcPkg(rids, FALSE, MalformedDoc, FALSE) : rids \in SeqsUpTo({RId(2), RId(3)}, 1)}

InitPar ==
  /\ \E bs \in [Runs -> ParBasePkgs], as \in [Runs -> ParSrcPkgs] :
       par = [NoPar EXCEPT
                !.inp = [r \in Runs |-> [base |-> Tagged(bs[r], r), add |-> Tagged(as[r], r)]],
                !.pc = [r \in Runs |-> "start"],
                !.out = [r \in Runs |-> NoFile],
                !.failedAt = [r \in Runs |-> ""]]
  /\ prog = "copy_elements_method" /\ pc = "done"
  /\ base_ppt = NoFile /\ add_ppt = NoFile /\ out_file = NoFile
  /\ temp_dir = FALSE /\ base_dir = NoFile /\ tree = NoTree /\ loc = NoLoc
  /\ hist = NoHist /\ result = Running /\ disk = <<>> /\ sm = NoSM

NextPar == \E r \in Runs : Par_Run(r)

SpecPar == InitPar /\ [][NextPar]_vars

(***************************************************************************)
(* The claims.                                                             *)
(***************************************************************************)
CEM == prog = "copy_elements_method"
MK3 == prog = "mk3"

Added == {hist.added[k] : k \in DOMAIN hist.added}

\* The relationship of pkg's top-level relationship document with Id rid
TopRel(pkg, rid) == FirstWithId(pkg.rels, rid)

\* The slide part source unit reference k points to, as a set
SrcSlidePart(k) ==
  {join(<<"ppt">>, r.Target) : r \in TopRel(add_ppt, RIdOf(add_ppt.lst[k]))}

\* Source unit reference k has no entry in the source's top-level
\* relationship document
Dangling(k) == TopRel(add_ppt, RIdOf(add_ppt.lst[k])) = {}

\* Every internal relationship of the relationship document of part owner
\* resolves to a part of pkg
InternalTargetsPresent(pkg, owner) ==
  \A j \in DOMAIN pkg.relDocs[owner].rels :
     LET r == pkg.relDocs[owner].rels[j]
     IN  r.Mode = "Internal" => Resolve(owner.dir, r.Target) \in DOMAIN pkg.files

\* C1: after process_slide_relationships has run for a newly added slide,
\* every internal relationship of the relationship document it wrote for that
\* slide has a target that is a part of the target package.
C1_WrittenRelsResolve ==
  CEM => \A a \in Added : a.wrote => InternalTargetsPresent(base_dir, a.to)

\* The inputs C2 is about: both packages open, the target has units, every
\* source unit reference's r:id has a relationship whose slide part exists,
\* and every document parses
C2_Given ==
  /\ base_ppt.readable /\ base_ppt.hasLst /\ add_ppt.readable /\ add_ppt.hasLst
  /\ base_ppt.lst # <<>> /\ add_ppt.lst # <<>>
  /\ \A k \in DOMAIN base_ppt.rels : base_ppt.rels[k].Id.pfx = "rId"
  /\ \A k \in DOMAIN add_ppt.lst :
        SrcSlidePart(k) # {} /\ SrcSlidePart(k) \subseteq DOMAIN add_ppt.files
  /\ \A p \in DOMAIN add_ppt.relDocs : add_ppt.relDocs[p].ok

\* C2: merge_presentations of copy_elements_method.py on a target with n
\* units and a source with k resolvable unit references writes an output
\* whose unit list has n + k entries; each new entry carries a relationship
\* id greater than every rId<n> of the target's top-level relationship
\* document, and its slide part is in the output.
C2_AllUnitsAdded ==
  (CEM /\ pc = "done" /\ C2_Given) =>
     /\ hist.produced
     /\ Len(out_file.lst) = Len(base_ppt.lst) + Len(add_ppt.lst)
     /\ \A j \in (Len(base_ppt.lst) + 1)..Len(out_file.lst) :
           LET rid == RIdOf(out_file.lst[j])
           IN  /\ rid.pfx = "rId"
               /\ \A q \in DOMAIN base_ppt.rels : rid.n > base_ppt.rels[q].Id.n
               /\ \E r \in TopRel(out_file, rid) :
                     join(<<"ppt">>, r.Target) \in DOMAIN out_file.files

\* Every relationship id of every relationship document of pkg
AllRelIds(pkg) ==
  {pkg.rels[k].Id : k \in DOMAIN pkg.rels}
    \cup UNION {{pkg.relDocs[p].rels[j].Id : j \in DOMAIN pkg.relDocs[p].rels} :
                  p \in DOMAIN pkg.relDocs}

\* C3: every relationship id the merge allocates for a new unit differs from
\* every relationship id of every relationship document of the target
\* package, top-level and slide-local.
C3_FreshRelIds ==
  (CEM \/ MK3) => \A a \in Added : a.rid \notin AllRelIds(base_ppt)

StrictlyIncreasing(s) == \A a, b \in DOMAIN s : a < b => s[a] < s[b]

\* C4: within one run of mk3.merge_pptx_files the unit ids handed out are
\* strictly increasing, the relationship ids handed out by the slide loop and
\* by the loop over the other relationships are strictly increasing, and each
\* is greater than every unit id, respectively every rId<n>, of the target;
\* so the ids taken for a skipped unit are not handed out again.
C4_IdsIncrease ==
  MK3 =>
     /\ StrictlyIncreasing(hist.unitIds)
     /\ StrictlyIncreasing([k \in DOMAIN hist.relIds |-> hist.relIds[k].n])
     /\ \A k \in DOMAIN hist.unitIds : \A q \in DOMAIN base_ppt.lst :
           hist.unitIds[k] > base_ppt.lst[q].id
     /\ \A k \in DOMAIN hist.relIds : \A q \in DOMAIN base_ppt.rels :
           base_ppt.rels[q].Id.pfx = "rId" => hist.relIds[k].n > base_ppt.rels[q].Id.n

\* A run of mk3.py that skipped a unit, added a later one and then gave an id
\* to another relationship
C4_Witness ==
  /\ MK3 /\ pc = "done"
  /\ \E k \in DOMAIN hist.skipped : \E a \in Added : hist.skipped[k] < a.k
  /\ Len(hist.relIds) > Len(hist.unitIds)

\* C5: the path merge_presentations of copy_elements_method.py copies a slide
\* part to is not a path of the target package.
C5_FreshSlidePath ==
  CEM => \A a \in Added : ~a.existed

\* C6: after mk3.merge_pptx_files, the part the top-level relationship of
\* each new unit reference targets has the bytes of the source slide part the
\* source unit reference pointed to.
C6_NewUnitBytes ==
  (MK3 /\ pc = "done" /\ hist.produced) =>
     \A a \in Added :
        \A src_part \in SrcSlidePart(a.k) \cap DOMAIN add_ppt.files :
           \E r \in TopRel(out_file, a.rid) :
              LET t == join(<<"ppt">>, r.Target)
              IN  t \in DOMAIN out_file.files /\ out_file.files[t] = add_ppt.files[src_part]

\* The media relationships of the source relationship document of an added
\* slide that point to a part of the source package
MediaRefs(a) ==
  {j \in DOMAIN add_ppt.relDocs[a.from].rels :
     LET r == add_ppt.relDocs[a.from].rels[j]
     IN  /\ IsMediaType(r.Type) /\ r.Mode = "Internal"
         /\ Resolve(a.from.dir, r.Target) \in DOMAIN add_ppt.files}
MediaPart(a, j) == Resolve(a.from.dir, add_ppt.relDocs[a.from].rels[j].Target)

\* Two slides of one merge, both processed, that reference the same media
\* part of the source
SharedMedia ==
  {x \in [a : Added, b : Added, ja : 1..3, jb : 1..3] :
     /\ x.a.k # x.b.k /\ x.a.wrote /\ x.b.wrote
     /\ x.ja \in MediaRefs(x.a) /\ x.jb \in MediaRefs(x.b)
     /\ MediaPart(x.a, x.ja) = MediaPart(x.b, x.jb)}

\* C7: when process_slide_relationships has run for two slides of one merge
\* that reference the same source media part, that part was copied exactly
\* once, the rewritten relationships of both slides have the same target, and
\* that target is a part with the bytes of the source media part.
C7_MediaDedup ==
  CEM => \A x \in SharedMedia :
     LET m == MediaPart(x.a, x.ja)
         ta == base_dir.relDocs[x.a.to].rels[x.ja].Target
         tb == base_dir.relDocs[x.b.to].rels[x.jb].Target
     IN  /\ Cardinality({n \in DOMAIN hist.copies : hist.copies[n].from = m}) = 1
         /\ ta = tb
         /\ Resolve(x.a.to.dir, ta) \in DOMAIN base_dir.files
         /\ base_dir.files[Resolve(x.a.to.dir, ta)] = add_ppt.files[m]

\* A finished merge in which two slides named the same media part by
\* different targets
C7_Witness ==
  /\ CEM /\ pc = "done" /\ hist.produced
  /\ \E x \in SharedMedia :
        add_ppt.relDocs[x.a.from].rels[x.ja].Target # add_ppt.relDocs[x.b.from].rels[x.jb].Target

\* C8: when a source unit reference's relationship id has no entry in the
\* source's top-level relationship document, the merge completes, adds no
\* unit for that reference, merges every other source unit whose slide part
\* exists, in order, and returns one warning for each such reference.
C8_DanglingWarned ==
  ( /\ CEM \/ MK3
    /\ pc = "done"
    /\ base_ppt.readable /\ base_ppt.hasLst /\ add_ppt.readable /\ add_ppt.hasLst
    /\ base_ppt.lst # <<>>
    /\ \A k \in DOMAIN base_ppt.rels : base_ppt.rels[k].Id.pfx = "rId"
    /\ \A p \in DOMAIN add_ppt.relDocs : add_ppt.relDocs[p].ok
    /\ \E k \in DOMAIN add_ppt.lst : Dangling(k) ) =>
     /\ hist.produced
     /\ \A a \in Added : ~Dangling(a.k)
     /\ \A k \in DOMAIN add_ppt.lst :
           (SrcSlidePart(k) # {} /\ SrcSlidePart(k) \subseteq DOMAIN add_ppt.files)
              => \E a \in Added : a.k = k
     /\ StrictlyIncreasing([k \in DOMAIN hist.added |-> hist.added[k].k])
     /\ Len(result.warnings) = Cardinality({k \in DOMAIN add_ppt.lst : Dangling(k)})

\* The file at output_path before the run
Out0 == IF hist.out0 THEN OldFile ELSE NoFile

\* C9: in merge_presentations of copy_elements_method.py, when a step before
\* the packaging raises, the file at output_path is as it was before the run;
\* the file changes only in a run all of whose earlier steps succeeded.
C9_NoOutputOnFailure ==
  CEM => /\ hist.failedAt # "" => out_file = Out0
         /\ out_file # Out0 => hist.produced /\ hist.failedAt = ""

\* A run that copied files into the staged target, then failed on a
\* relationship document, with a file at output_path before the run
C9_Witness ==
  /\ CEM /\ pc = "done" /\ hist.failedAt = "slide_rels"
  /\ hist.copies # <<>> /\ hist.out0 /\ out_file = OldFile

\* C10: a run of copy_elements_method.py or mk4.py that wrote no output
\* package ends with a non-zero exit code or an error that reaches the caller.
C10_FailureObservable ==
  ((CEM \/ prog = "mk4") /\ pc = "done" /\ ~hist.produced) =>
     result.exit # 0 \/ result.status = "raised"

MK2 == prog = "mk2"
MK5 == prog = "mk5"

\* C11: once the merge function of mk2.py, mk3.py or copy_elements_method.py
\* has returned or raised, the staging directory it made no longer exists.
C11_StagingRemoved ==
  ((MK2 \/ MK3 \/ CEM) /\ pc = "done") => ~temp_dir

\* The bytes of the files of a package
BytesOf(pkg) == {pkg.files[p] : p \in DOMAIN pkg.files}

\* Run r has extracted its target and has not packaged or failed yet
Staged(r) == par.pc[r] \in {"extract_add", "merge", "content_types", "package"}

\* C12: two runs of copy_elements_method.merge_presentations in flight at
\* once do not share a staging directory: the files of a run's output are
\* files of its own two inputs, and what a run has staged is there until the
\* run has packaged it.
C12_RunsIsolated ==
  \A r \in Runs :
     /\ par.out[r] # NoFile =>
           BytesOf(par.out[r]) \subseteq BytesOf(par.inp[r].base) \cup BytesOf(par.inp[r].add)
     /\ Staged(r) => par.temp /\ par.base # NoFile
                       /\ BytesOf(par.inp[r].base) \subseteq BytesOf(par.base)

\* The extensions the target declares with another content type than
\* update_content_types has for them
Conflicts ==
  {e \in (DOMAIN base_ppt.defaults) \cap (DOMAIN Extensions) :
     base_ppt.defaults[e] # Extensions[e]}

ConflictWarnings ==
  {k \in DOMAIN result.warnings : result.warnings[k] = "ContentTypeConflict"}

\* C13: when the target declares an extension with another content type than
\* update_content_types of copy_elements_method.py would declare for it, the
\* output keeps the target's content type for the extension and exactly one
\* ContentTypeConflict warning is recorded.
C13_ConflictWarned ==
  (CEM /\ pc = "done" /\ hist.produced /\ Conflicts # {}) =>
     /\ \A e \in Conflicts : out_file.defaults[e] = base_ppt.defaults[e]
     /\ Cardinality(ConflictWarnings) = 1

\* The Extension attribute that declares the files ending in ext
ExtensionOf(ext) ==
  CASE ext = ".xml" -> "xml"
    [] ext = ".rels" -> "rels"
    [] ext = ".png" -> "png"
    [] ext = ".jpg" -> "jpg"
    [] ext = ".xlsx" -> "xlsx"
    [] OTHER -> ext

\* Every part of the package has a Default for its extension or an Override
\* for its path
AllDeclared(pkg) ==
  /\ pkg.hasCT
  /\ \A p \in DOMAIN pkg.files :
        ExtensionOf(p.ext) \in DOMAIN pkg.defaults \/ p \in DOMAIN pkg.overrides
  /\ (DOMAIN pkg.relDocs # {}) => "rels" \in DOMAIN pkg.defaults

\* C14: after mk3.merge_pptx_files on two packages that each declare a
\* content type for all of their own parts, every part of the output has a
\* Default for its extension or an Override for its path.
C14_OutputDeclared ==
  (MK3 /\ pc = "done" /\ hist.produced /\ AllDeclared(base_ppt) /\ AllDeclared(add_ppt)) =>
     AllDeclared(out_file)

\* mk5.py was started as its usage line says, on two presentations
\* python-pptx opens
AsDocumented ==
  /\ MK5 /\ loc.argc = 3
  /\ base_ppt.readable /\ hist.add0.readable /\ EndsWithPpt(loc.name2)
  /\ base_ppt.layouts # <<>>

\* C15: a run of mk5.py with <input_ppt1> <input_ppt2> <output_ppt> writes
\* the presentation with the slides of the first input followed by those of
\* the second to <output_ppt> and leaves the two input files as they were.
C15_MergedWritten ==
  (AsDocumented /\ pc = "done") =>
     /\ out_file.readable
     /\ Len(out_file.lst) = Len(base_ppt.lst) + Len(hist.add0.lst)
     /\ add_ppt = hist.add0

\* The file at the path the call returned
AtReturned ==
  IF result.value = loc.output_path THEN out_file
  ELSE IF result.value \in DOMAIN disk THEN disk[result.value]
  ELSE NoFile

\* C16: mk2.merge_pptx_files saves the merged package at the path passed as
\* output_path, whether or not that path ends in .pptx, and the path it
\* returns is a path at which the merged package is.
C16_SavedAtOutputPath ==
  (MK2 /\ result.status = "returned") =>
     /\ out_file = create_pptx(base_dir)
     /\ AtReturned = create_pptx(base_dir)

\* What the calls of StateManager() returned, in all threads
Returned == UNION {{Cur(t).rets[k] : k \in DOMAIN Cur(t).rets} : t \in Threads}

\* Thread t has stored its key
HasPut(t) == sm.scen = "construct" /\ Cur(t).rets # <<>> /\ Len(Cur(t).todo) <= 1

\* C17: however many times StateManager() is called, from one thread or from
\* several at once, every call returns the same instance, _initialize runs
\* exactly once, and a key stored before a later call is still there after
\* it: there is only ever one state.
C17_Singleton ==
  /\ sm.made <= 1 /\ sm.initialized <= 1
  /\ Cardinality(Returned) <= 1
  /\ Returned # {} => sm.initialized = 1 /\ Returned = {sm.instance}
  /\ \A t \in Threads : HasPut(t) =>
        /\ KeyOf(t) \in DOMAIN sm.states[sm.instance]
        /\ sm.states[sm.instance][KeyOf(t)] = t
        /\ \A k \in DOMAIN Cur(t).rets : KeyOf(t) \in DOMAIN sm.states[Cur(t).rets[k]]

\* Every thread has made the instance or got it, stored its key and called
\* StateManager() again; the instance was made by one of them, from the
\* dictionary at _persist_file
C17_Witness ==
  /\ sm.scen = "construct"
  /\ \A t \in Threads : Cur(t).todo = <<>> /\ Len(Cur(t).rets) = 2 /\ HasPut(t)
  /\ sm.maker # 0 /\ sm.file = Pickled(("saved" :> 7))
  /\ "saved" \in DOMAIN sm.states[sm.instance]

\* The increments thread t has completed
Completed(t) ==
  Iterations - Len(Cur(t).todo) + (IF Cur(t).pc = "inc_release" THEN 1 ELSE 0)

RECURSIVE SumCompleted(_)
SumCompleted(n) == IF n = 0 THEN 0 ELSE Completed(n) + SumCompleted(n - 1)

\* C18: NThreads threads that each do Iterations times "read
\* state['counter'], write state['counter'] = value + 1" under state._lock
\* lose no update, so that the counter ends at its initial value plus
\* NThreads * Iterations, and none of them waits forever, although
\* __getitem__ and __setitem__ acquire the lock again.
C18_CounterExact ==
  sm.scen = "increment" =>
     /\ sm.states[sm.instance]["counter"] = sm.initial + SumCompleted(NThreads)
     /\ (\A t \in Threads : Cur(t).todo = <<>>) =>
           sm.states[sm.instance]["counter"] = sm.initial + NThreads * Iterations
     /\ (\E t \in Threads : Cur(t).todo # <<>>) => \E t \in Threads : ENABLED SM_Thread(t)

\* All threads have finished, starting from 5, with the worker running
C18_Witness ==
  /\ sm.scen = "increment" /\ sm.initial = 5 /\ sm.worker # "none"
  /\ \A t \in Threads : Cur(t).todo = <<>> /\ Cur(t).pc = "idle"
  /\ sm.states[sm.instance]["counter"] = 5 + NThreads * Iterations
  /\ sm.file # NoPickle

\* The calls of enable_persistence are over and the last one had
\* auto_persist=True
PersistenceOn ==
  sm.scen = "persist" /\ Cur(1).todo = <<>> /\ Cur(1).pc = "idle" /\ sm.auto_persist

\* C19: after a sequence of enable_persistence calls whose last one has
\* auto_persist=True, the worker calls persist() again and again.
C19_PersistsAgain == [](PersistenceOn => <>(sm.worker = "persist"))

\* C20: every part the target had before mk2.merge_pptx_files is in the
\* output with the bytes it had, the main document, its relationship
\* document and the content-types manifest apart; a media, chart, embedding
\* or theme file of the source does not replace the target's file of the
\* same name.
C20_TargetPartsKept ==
  (MK2 /\ result.status = "returned") =>
     /\ \A p \in DOMAIN base_ppt.files :
           p \in DOMAIN AtReturned.files /\ AtReturned.files[p] = base_ppt.files[p]
     /\ \A p \in DOMAIN base_ppt.relDocs :
           p \in DOMAIN AtReturned.relDocs /\ AtReturned.relDocs[p] = base_ppt.relDocs[p]

\* The paths process_slide_relationships has allocated for media files
AllocatedMedia == {join(<<"ppt">>, loc.added_media[m]) : m \in DOMAIN loc.added_media}

\* C21: every path process_slide_relationships allocates for a copied media
\* file is a path at which the target had no part before the merge, and no
\* two media files of one merge get the same path.
C21_FreshMediaPath ==
  CEM => /\ AllocatedMedia \cap DOMAIN base_ppt.files = {}
         /\ \A m, n \in DOMAIN loc.added_media :
               loc.added_media[m] = loc.added_media[n] => m = n

\* The charts process_slide_relationships has copied, with a relationship
\* document written for the copy
ChartCopies ==
  {c \in {hist.copies[n] : n \in DOMAIN hist.copies} :
     /\ c.to.dir = <<"ppt", "charts">>
     /\ c.from \in DOMAIN add_ppt.relDocs /\ c.to \in DOMAIN base_dir.relDocs}

\* C22: in the relationship document written for a copied chart, every
\* relationship to an embedded .xlsx workbook targets a part that is in the
\* target package and has the bytes of the workbook the chart of the source
\* pointed to.
C22_WorkbookCopied ==
  CEM => \A c \in ChartCopies :
     \A j \in DOMAIN add_ppt.relDocs[c.from].rels :
        LET r == add_ppt.relDocs[c.from].rels[j]
            w == base_dir.relDocs[c.to].rels[j]
            part == Resolve(c.to.dir, w.Target)
        IN  (r.Type = "package" /\ r.Target.ext = ".xlsx") =>
               /\ part \in DOMAIN base_dir.files
               /\ base_dir.files[part] = add_ppt.files[Resolve(c.from.dir, r.Target)]

\* The slides of this merge for which process_slide_relationships wrote a
\* relationship document that the staged target still holds
Processed == {a \in Added : a.wrote /\ a.to \in DOMAIN base_dir.relDocs}

SrcRel(a, j) == add_ppt.relDocs[a.from].rels[j]
WrittenRel(a, j) == base_dir.relDocs[a.to].rels[j]

\* The relationships of the source slide of a that name a media or chart
\* part the source package does not have
MissingRefs(a) ==
  {j \in DOMAIN add_ppt.relDocs[a.from].rels :
     /\ IsMediaType(SrcRel(a, j).Type) \/ IsChartType(SrcRel(a, j).Type)
     /\ SrcRel(a, j).Mode = "Internal"
     /\ Resolve(a.from.dir, SrcRel(a, j).Target) \notin DOMAIN add_ppt.files}

\* C23: a relationship of a source slide to a media or chart part that the
\* source package lacks is written as it was or not at all, never with a
\* target at which the target package has no part, and a warning is recorded
\* for it.
C23_MissingSkipped ==
  CEM => \A a \in Processed : \A j \in MissingRefs(a) :
     /\ \A k \in DOMAIN base_dir.relDocs[a.to].rels :
           WrittenRel(a, k).Id = SrcRel(a, j).Id =>
              \/ WrittenRel(a, k) = SrcRel(a, j)
              \/ Resolve(a.to.dir, WrittenRel(a, k).Target) \in DOMAIN base_dir.files
     /\ result.warnings # <<>>

\* The relationships of the source slide of a with external target mode
ExternalRefs(a) ==
  {j \in DOMAIN add_ppt.relDocs[a.from].rels : SrcRel(a, j).Mode = "External"}

\* C24: a relationship with external target mode of a source slide is
\* written to the target with the Id, Type, Target and TargetMode it has in
\* the source, whatever its type and the scheme of its target.
C24_ExternalVerbatim ==
  CEM => \A a \in Processed : \A j \in ExternalRefs(a) :
     /\ j \in DOMAIN base_dir.relDocs[a.to].rels
     /\ WrittenRel(a, j) = SrcRel(a, j)

\* Source unit reference k is one the loop of merge_presentations finds: the
\* id it reads is the r:id, which has a relationship whose slide part exists
Found(k) ==
  /\ GetNsId(add_ppt.lst[k], get_namespace(add_ppt.ns, "r")) = RIdOf(add_ppt.lst[k])
  /\ SrcSlidePart(k) # {} /\ SrcSlidePart(k) \subseteq DOMAIN add_ppt.files

\* The relationship document of the slide of source unit reference k does
\* not parse
MalformedRels(k) ==
  \E p \in SrcSlidePart(k) : p \in DOMAIN add_ppt.relDocs /\ ~add_ppt.relDocs[p].ok

\* Both packages open and have a unit list, every unit of the source is
\* found, and the relationship document of one of them does not parse
C25_Given ==
  /\ base_ppt.readable /\ base_ppt.hasLst /\ add_ppt.readable /\ add_ppt.hasLst
  /\ \A k \in DOMAIN base_ppt.rels : base_ppt.rels[k].Id.pfx = "rId"
  /\ \A k \in DOMAIN add_ppt.lst : Found(k)
  /\ \E k \in DOMAIN add_ppt.lst : MalformedRels(k)

\* C25: when the relationship document of one source slide does not parse,
\* merge_presentations of copy_elements_method.py still adds that slide and
\* every other source slide and writes the output package.
C25_MalformedIsolated ==
  (CEM /\ pc = "done" /\ C25_Given) =>
     /\ hist.produced /\ hist.failedAt = ""
     /\ \A k \in DOMAIN add_ppt.lst : \E a \in Added : a.k = k

\* The relationships of the source slide of a that name a chart part of the
\* source
ChartRefs(a) ==
  {j \in DOMAIN add_ppt.relDocs[a.from].rels :
     /\ IsChartType(SrcRel(a, j).Type) /\ SrcRel(a, j).Mode = "Internal"
     /\ Resolve(a.from.dir, SrcRel(a, j).Target) \in DOMAIN add_ppt.files}
ChartPart(a, j) == Resolve(a.from.dir, SrcRel(a, j).Target)

\* Two slides of one merge, both processed, that reference the same chart
\* part of the source
SharedChart ==
  {x \in [a : Processed, b : Processed, ja : 1..4, jb : 1..4] :
     /\ x.a.k # x.b.k
     /\ x.ja \in ChartRefs(x.a) /\ x.jb \in ChartRefs(x.b)
     /\ ChartPart(x.a, x.ja) = ChartPart(x.b, x.jb)}

\* C26: when process_slide_relationships has run for two slides of one merge
\* that reference the same chart part of the source, the chart was copied at
\* most once and the rewritten relationships of both slides have the same
\* target.
C26_ChartDedup ==
  CEM => \A x \in SharedChart :
     /\ Cardinality({n \in DOMAIN hist.copies :
                       hist.copies[n].from = ChartPart(x.a, x.ja)}) <= 1
     /\ WrittenRel(x.a, x.ja).Target = WrittenRel(x.b, x.jb).Target

\* The relationships of pkg's top-level relationship document with Id rid
WithId(pkg, rid) == {k \in DOMAIN pkg.rels : pkg.rels[k].Id = rid}

\* C27: after mk3.merge_pptx_files the unit references and top-level
\* relationships the target had are unchanged and in their order, the new
\* unit references follow them in source order, and the relationship id of
\* each new unit reference is the Id of exactly one top-level relationship,
\* of type slide, whose target is a part of the output.
C27_UnitsAppended ==
  (MK3 /\ pc = "done" /\ hist.produced) =>
     LET nb == Len(base_ppt.lst)
         nr == Len(base_ppt.rels)
     IN  /\ Len(out_file.lst) = nb + Len(hist.added)
         /\ SubSeq(out_file.lst, 1, nb) = base_ppt.lst
         /\ Len(out_file.rels) >= nr /\ SubSeq(out_file.rels, 1, nr) = base_ppt.rels
         /\ StrictlyIncreasing([i \in DOMAIN hist.added |-> hist.added[i].k])
         /\ \A i \in DOMAIN hist.added :
               LET rid == RIdOf(out_file.lst[nb + i])
               IN  /\ rid = hist.added[i].rid
                   /\ Cardinality(WithId(out_file, rid)) = 1
                   /\ \A k \in WithId(out_file, rid) :
                         /\ out_file.rels[k].Type = "slide"
                         /\ join(<<"ppt">>, out_file.rels[k].Target) \in DOMAIN out_file.files

\* The source unit references mk2's slide loop has gone through
Mk2Visited == IF pc = "loop" THEN 1..(loc.i - 1) ELSE {}

\* C28: in mk2 the relationship id read from each source unit reference is
\* the element's r:id attribute, so every source slide whose r:id has an
\* entry in the source's top-level relationship document is copied and
\* gets a new unit reference and a new top-level relationship.
C28_Mk2ReadsRId ==
  MK2 =>
     \A k \in Mk2Visited :
        /\ RIdOf(add_ppt.lst[k]) \in DOMAIN loc.rid_mapping
        /\ (~Dangling(k) /\ SrcSlidePart(k) \subseteq DOMAIN add_ppt.files) =>
              \E a \in Added :
                 /\ a.k = k
                 /\ a.to \in DOMAIN base_dir.files
                 /\ \E i \in DOMAIN tree.lst : tree.lst[i].id = a.id
                 /\ \E j \in DOMAIN tree.rels :
                       tree.rels[j].Id = a.rid /\ tree.rels[j].Type = "slide"

\* A readable target whose presentation.xml has no p:sldIdLst element and
\* whose relationship ids are all numbered, and a readable source
C29_Given ==
  /\ base_ppt.readable /\ add_ppt.readable
  /\ ~base_ppt.hasLst
  /\ \A k \in DOMAIN base_ppt.rels : ~IdNotInt(base_ppt.rels[k].Id)

\* C29: when the target has no unit list element, copy_elements_method
\* creates an empty one, allocates unit ids from 256 on and writes the
\* output: the merge does not fail.
C29_ListCreated ==
  (CEM /\ pc = "done" /\ C29_Given) =>
     /\ hist.failedAt = ""
     /\ hist.produced
     /\ out_file.hasLst
     /\ \A n \in DOMAIN hist.unitIds : hist.unitIds[n] = DefaultMaxSlideId + n

\* The threads whose setdefault stored its default
Storers == {t \in Threads : Cur(t).stored}

\* C30: when several threads call setdefault concurrently on the same
\* absent key with different defaults, exactly one default is stored, every
\* caller receives that value, and the key's value is that value.
C30_SetdefaultOnce ==
  sm.scen = "setdefault" =>
     LET d == sm.states[sm.instance]
     IN  /\ Cardinality(Storers) <= 1
         /\ SharedKey \in DOMAIN d =>
               /\ Cardinality(Storers) = 1
               /\ \A t \in Storers : d[SharedKey] = DefaultOf(t)
         /\ \A t \in Threads : \A i \in DOMAIN Cur(t).got :
               SharedKey \in DOMAIN d /\ Cur(t).got[i] = d[SharedKey]

\* Every thread has returned from setdefault with the default of thread 2,
\* which is the one that was stored
C30_Witness ==
  /\ sm.scen = "setdefault"
  /\ Storers = {2}
  /\ \A t \in Threads :
        Cur(t).todo = <<>> /\ Cur(t).pc = "idle" /\ Cur(t).got = <<DefaultOf(2)>>
  /\ sm.states[sm.instance][SharedKey] = DefaultOf(2)

====
